---- MODULE Spec2Model ----
(***************************************************************************)
(* Near-duplicate detection and clustering engine of news-db-pure-analysis *)
(* (src/clustering): the validated and the fast Hamming-distance           *)
(* comparators over 16-character hex fingerprints, and the greedy          *)
(* center-comparison clustering of a batch of articles.                    *)
(*                                                                         *)
(* A JavaScript string is a sequence of one-character strings.  A thrown   *)
(* exception and a returned value are both "completion" records           *)
(* [kind, value], so that a throw is an outcome the checks can see.        *)
(***************************************************************************)
EXTENDS Integers, Sequences, FiniteSets, TLC

(***************************************************************************)
(* Bounds of the model.                                                    *)
(***************************************************************************)
MaxDocs == 3        \* longest batch handed to groupArticlesBySimilarity
MaxTs == 2          \* publishedAt time values are 1..MaxTs
MaxThreshold == 1   \* thresholds are -1..MaxThreshold

(***************************************************************************)
(* Strings and completions.                                                *)
(***************************************************************************)
Rep(c, n) == [k \in 1..n |-> c]

Return(v) == [kind |-> "return", value |-> v]

Throw(m) == [kind |-> "throw", value |-> m]

HexDigits == <<"0", "1", "2", "3", "4", "5", "6", "7",
               "8", "9", "a", "b", "c", "d", "e", "f">>

UpperHexDigits == <<"0", "1", "2", "3", "4", "5", "6", "7",
                    "8", "9", "A", "B", "C", "D", "E", "F">>

HexChars == {HexDigits[k] : k \in 1..16} \cup {UpperHexDigits[k] : k \in 1..16}

HexValues ==
    [c \in HexChars |->
        (CHOOSE k \in 1..16 : HexDigits[k] = c \/ UpperHexDigits[k] = c) - 1]

IsHexDigit(c) == c \in HexChars

HexVal(c) == HexValues[c]

IsWhiteSpace(c) == c = " "

(***************************************************************************)
(* parseInt(string, 16): leading white space is skipped, then an optional  *)
(* sign, then an optional 0x / 0X prefix; the value is that of the longest *)
(* prefix of hex digits that follows, NaN when that prefix is empty.       *)
(***************************************************************************)
RECURSIVE TrimStart(_)
TrimStart(s) ==
    IF s # <<>> /\ IsWhiteSpace(Head(s)) THEN TrimStart(Tail(s)) ELSE s

RECURSIVE DigitPrefixLen(_)
DigitPrefixLen(s) ==
    IF s # <<>> /\ IsHexDigit(Head(s)) THEN 1 + DigitPrefixLen(Tail(s)) ELSE 0

RECURSIVE HexNumber(_)
HexNumber(s) ==
    IF s = <<>> THEN 0
    ELSE 16 * HexNumber(SubSeq(s, 1, Len(s) - 1)) + HexVal(s[Len(s)])

parseInt16(str) ==
    LET t == TrimStart(str)
        sign == IF t # <<>> /\ Head(t) = "-" THEN -1 ELSE 1
        u == IF t # <<>> /\ Head(t) \in {"-", "+"} THEN Tail(t) ELSE t
        v == IF Len(u) >= 2 /\ u[1] = "0" /\ u[2] \in {"x", "X"}
             THEN SubSeq(u, 3, Len(u)) ELSE u
        n == DigitPrefixLen(v)
    IN  IF n = 0 THEN [nan |-> TRUE, n |-> 0]
        ELSE [nan |-> FALSE, n |-> sign * HexNumber(SubSeq(v, 1, n))]

\* ToInt32 of a Number: NaN becomes 0 (the values here are below 2^16)
ToInt32(num) == IF num.nan THEN 0 ELSE num.n

(***************************************************************************)
(* The int32 operators ^, & 1 and >>= 1 of the chunk loop.                 *)
(***************************************************************************)
RECURSIVE XorNat(_, _)
XorNat(a, b) ==
    IF a = 0 THEN b
    ELSE IF b = 0 THEN a
    ELSE ((a + b) % 2) + 2 * XorNat(a \div 2, b \div 2)

\* two's complement: a negative x is the complement of -x-1
BitXor32(a, b) ==
    IF a >= 0 /\ b >= 0 THEN XorNat(a, b)
    ELSE IF a < 0 /\ b < 0 THEN XorNat(-a - 1, -b - 1)
    ELSE IF a < 0 THEN -XorNat(-a - 1, b) - 1
    ELSE -XorNat(a, -b - 1) - 1

\* seeded fault: distance += xor, without the & 1
RECURSIVE CountBitsLoop_AddsXor(_)
CountBitsLoop_AddsXor(xor) ==
    IF xor > 0 THEN xor + CountBitsLoop_AddsXor(xor \div 2) ELSE 0

\* while (xor > 0) { distance += xor & 1; xor >>= 1; }
RECURSIVE CountBitsLoop(_)
CountBitsLoop(xor) ==
    IF xor > 0 THEN (xor % 2) + CountBitsLoop(xor \div 2) ELSE 0

\* String.prototype.substring clamps its end to the length of the string
substring(s, from, to) == SubSeq(s, from + 1, IF to > Len(s) THEN Len(s) ELSE to)

\* seeded fault: the chunk of hashB is cut one character short
ChunkDistance_ShortB(hashA, hashB, i) ==
    LET valA == ToInt32(parseInt16(substring(hashA, i, i + 4)))
        valB == ToInt32(parseInt16(substring(hashB, i, i + 3)))
    IN  CountBitsLoop(BitXor32(valA, valB))

ChunkDistance(hashA, hashB, i) ==
    LET valA == ToInt32(parseInt16(substring(hashA, i, i + 4)))
        valB == ToInt32(parseInt16(substring(hashB, i, i + 4)))
    IN  CountBitsLoop(BitXor32(valA, valB))

\* seeded fault: the loop stops one chunk early
RECURSIVE ChunkLoop_ThreeChunks(_, _, _)
ChunkLoop_ThreeChunks(hashA, hashB, i) ==
    IF i < 12
    THEN ChunkDistance(hashA, hashB, i) + ChunkLoop_ThreeChunks(hashA, hashB, i + 4)
    ELSE 0

\* for (let i = 0; i < 16; i += 4) distance += bits of chunk i
RECURSIVE ChunkLoop(_, _, _)
ChunkLoop(hashA, hashB, i) ==
    IF i < 16
    THEN ChunkDistance(hashA, hashB, i) + ChunkLoop(hashA, hashB, i + 4)
    ELSE 0

\* seeded fault: only the first argument's length is checked
calculateHammingDistance_ChecksFirst(hashA, hashB) ==
    IF Len(hashA) # 16
    THEN Throw("Hashes must be 16-character hex strings")
    ELSE Return(ChunkLoop(hashA, hashB, 0))

calculateHammingDistance(hashA, hashB) ==
    IF Len(hashA) # 16 \/ Len(hashB) # 16
    THEN Throw("Hashes must be 16-character hex strings")
    ELSE Return(ChunkLoop(hashA, hashB, 0))

areArticlesSimilar(a, b, threshold) ==
    LET distance == calculateHammingDistance(a.simHash, b.simHash)
    IN  IF distance.kind = "throw" THEN distance
        ELSE IF distance.value > threshold THEN Return(FALSE)
        ELSE Return(TRUE)

(***************************************************************************)
(* The fast path works on BigInt.  A BigInt that is not negative is the    *)
(* sequence of its base-16 digits, least significant first, of any length. *)
(* BigInt('0x' + a): white space around the literal is trimmed, and the    *)
(* literal must be 0x followed by one or more hex digits, else SyntaxError.*)
(***************************************************************************)
RECURSIVE TrimEnd(_)
TrimEnd(s) ==
    IF s # <<>> /\ IsWhiteSpace(s[Len(s)])
    THEN TrimEnd(SubSeq(s, 1, Len(s) - 1)) ELSE s

Reverse(s) == [k \in 1..Len(s) |-> s[Len(s) + 1 - k]]

BigIntFromHex(a) ==
    LET lit == TrimEnd(a)
    IN  IF lit # <<>> /\ \A k \in 1..Len(lit) : IsHexDigit(lit[k])
        THEN Return(Reverse([k \in 1..Len(lit) |-> HexVal(lit[k])]))
        ELSE Throw("SyntaxError: Cannot convert to a BigInt")

BigDigit(x, k) == IF k <= Len(x) THEN x[k] ELSE 0

BigXor(x, y) ==
    [k \in 1..(IF Len(x) > Len(y) THEN Len(x) ELSE Len(y)) |->
        XorNat(BigDigit(x, k), BigDigit(y, k))]

BigPositive(x) == \E k \in 1..Len(x) : x[k] > 0

BigAndOne(x) == BigDigit(x, 1) % 2

\* seeded fault: the shift loses the bit that crosses from one digit to the next
BigShiftRight1_NoCarry(x) == [k \in 1..Len(x) |-> x[k] \div 2]

BigShiftRight1(x) ==
    [k \in 1..Len(x) |-> (x[k] \div 2) + 8 * (BigDigit(x, k + 1) % 2)]

\* while (xor > 0n) { count += Number(xor & 1n); xor >>= 1n; }
RECURSIVE BigCountLoop(_)
BigCountLoop(xor) ==
    IF BigPositive(xor)
    THEN BigAndOne(xor) + BigCountLoop(BigShiftRight1(xor))
    ELSE 0

hammingDistance(a, b) ==
    LET valA == BigIntFromHex(a)
        valB == BigIntFromHex(b)
    IN  IF valA.kind = "throw" THEN valA
        ELSE IF valB.kind = "throw" THEN valB
        ELSE Return(BigCountLoop(BigXor(valA.value, valB.value)))

(***************************************************************************)
(* distanceToSimilarity and getMatchType.  A distance is a double; the     *)
(* division by the power of two 64 and the subtraction from 1 are exact    *)
(* for the integers near the range, so the result is kept as the fraction  *)
(* num / den.                                                              *)
(***************************************************************************)
HashBits == 64

Quotient(n, d) == [num |-> n, den |-> d]

OneMinus(q) == [num |-> q.den - q.num, den |-> q.den]

\* seeded fault: the distance is divided by half the width
distanceToSimilarity_HalfWidth(distance) ==
    OneMinus(Quotient(distance, HashBits \div 2))

\* return 1 - (distance / 64);
distanceToSimilarity(distance) == OneMinus(Quotient(distance, HashBits))

\* seeded fault: the bound of 'near' is strict
getMatchType_StrictNear(distance) ==
    IF distance = 0 THEN "exact"
    ELSE IF distance < 3 THEN "near"
    ELSE IF distance <= 10 THEN "similar"
    ELSE "different"

getMatchType(distance) ==
    IF distance = 0 THEN "exact"
    ELSE IF distance <= 3 THEN "near"
    ELSE IF distance <= 10 THEN "similar"
    ELSE "different"

(***************************************************************************)
(* BigInt arithmetic of the fingerprint generator, on the same base-16     *)
(* digit sequences (least significant first; zeros at the high end do not  *)
(* change the value).                                                      *)
(***************************************************************************)
PowerOfTwo == <<1, 2, 4, 8, 16, 32, 64, 128, 256>>

RECURSIVE BigFromNumber(_)
BigFromNumber(n) ==
    IF n = 0 THEN <<>> ELSE <<n % 16>> \o BigFromNumber(n \div 16)

\* x * m + c for a small m and c
RECURSIVE BigTimesSmallPlus(_, _, _)
BigTimesSmallPlus(x, m, c) ==
    IF x = <<>> THEN BigFromNumber(c)
    ELSE <<(Head(x) * m + c) % 16>>
         \o BigTimesSmallPlus(Tail(x), m, (Head(x) * m + c) \div 16)

\* a decimal BigInt literal, digit by digit
RECURSIVE BigIntFromDecimal(_)
BigIntFromDecimal(digits) ==
    IF digits = <<>> THEN <<>>
    ELSE BigTimesSmallPlus(BigIntFromDecimal(SubSeq(digits, 1, Len(digits) - 1)),
                           10, digits[Len(digits)])

\* Multiplication works on limbs of three digits (base 4096): the value of
\* x is the sum of ToLimbs(x)[k] * 4096^(k-1).
ToLimbs(x) ==
    [k \in 1..((Len(x) + 2) \div 3) |->
        BigDigit(x, 3 * k - 2) + 16 * BigDigit(x, 3 * k - 1) + 256 * BigDigit(x, 3 * k)]

FromLimbs(l) ==
    [k \in 1..(3 * Len(l)) |->
        (l[((k - 1) \div 3) + 1] \div PowerOfTwo[4 * ((k - 1) % 3) + 1]) % 16]

\* the sum of x[n] * y[k + 1 - n] over the limbs n..Len(x) of x
RECURSIVE ColumnSum(_, _, _, _)
ColumnSum(x, y, k, n) ==
    IF n > k \/ n > Len(x) THEN 0
    ELSE (IF k + 1 - n <= Len(y) THEN x[n] * y[k + 1 - n] ELSE 0)
         + ColumnSum(x, y, k, n + 1)

RECURSIVE MulColumns(_, _, _, _)
MulColumns(x, y, k, carry) ==
    IF k > Len(x) + Len(y) THEN <<>>
    ELSE <<(ColumnSum(x, y, k, 1) + carry) % 4096>>
         \o MulColumns(x, y, k + 1, (ColumnSum(x, y, k, 1) + carry) \div 4096)

BigMul(x, y) == FromLimbs(MulColumns(ToLimbs(x), ToLimbs(y), 1, 0))

RECURSIVE AndNat(_, _)
AndNat(a, b) ==
    IF a = 0 \/ b = 0 THEN 0
    ELSE (a % 2) * (b % 2) + 2 * AndNat(a \div 2, b \div 2)

BigAnd(x, y) ==
    [k \in 1..(IF Len(x) < Len(y) THEN Len(x) ELSE Len(y)) |-> AndNat(x[k], y[k])]

BigOr(x, y) ==
    [k \in 1..(IF Len(x) > Len(y) THEN Len(x) ELSE Len(y)) |->
        BigDigit(x, k) + BigDigit(y, k) - AndNat(BigDigit(x, k), BigDigit(y, k))]

BigShiftLeft(x, n) ==
    Rep(0, n \div 4) \o BigTimesSmallPlus(x, PowerOfTwo[(n % 4) + 1], 0)

BigShiftRight(x, n) ==
    LET q == n \div 4
        low == PowerOfTwo[(n % 4) + 1]
        high == PowerOfTwo[5 - (n % 4)]
    IN  [k \in 1..(IF Len(x) > q THEN Len(x) - q ELSE 0) |->
            (x[k + q] \div low) + (BigDigit(x, k + q + 1) % low) * high]

\* x - 1n for a positive x
RECURSIVE BigMinusOne(_)
BigMinusOne(x) ==
    IF Head(x) > 0 THEN <<Head(x) - 1>> \o Tail(x)
    ELSE <<15>> \o BigMinusOne(Tail(x))

RECURSIVE BigTrim(_)
BigTrim(x) ==
    IF x # <<>> /\ x[Len(x)] = 0 THEN BigTrim(SubSeq(x, 1, Len(x) - 1)) ELSE x

\* BigInt.prototype.toString(16): lower-case digits, no leading zeros, '0'
\* for zero
BigToString16(x) ==
    IF BigTrim(x) = <<>> THEN <<"0">>
    ELSE Reverse([k \in 1..Len(BigTrim(x)) |-> HexDigits[BigTrim(x)[k] + 1]])

\* seeded fault: the string is not padded
padStart_None(s, n, c) == s

padStart(s, n, c) == IF Len(s) >= n THEN s ELSE Rep(c, n - Len(s)) \o s

(***************************************************************************)
(* Characters.  A string is a sequence of UTF-16 code units; a code unit   *)
(* outside ASCII is written by its code point, as in "U+00E9".             *)
(***************************************************************************)
LowerLetters == <<"a", "b", "c", "d", "e", "f", "g", "h", "i", "j", "k", "l", "m",
                  "n", "o", "p", "q", "r", "s", "t", "u", "v", "w", "x", "y", "z">>

UpperLetters == <<"A", "B", "C", "D", "E", "F", "G", "H", "I", "J", "K", "L", "M",
                  "N", "O", "P", "Q", "R", "S", "T", "U", "V", "W", "X", "Y", "Z">>

DecimalDigits == <<"0", "1", "2", "3", "4", "5", "6", "7", "8", "9">>

OtherCodes == [c \in {"\t", " ", "!", "'", ",", "-", ".", "_", "U+00E9", "U+20AC"} |->
                 CASE c = "\t" -> 9 [] c = " " -> 32 [] c = "!" -> 33
                   [] c = "'" -> 39 [] c = "," -> 44 [] c = "-" -> 45 [] c = "." -> 46
                   [] c = "_" -> 95 [] c = "U+00E9" -> 233 [] c = "U+20AC" -> 8364]

Chars ==
    {LowerLetters[k] : k \in 1..26} \cup {UpperLetters[k] : k \in 1..26}
    \cup {DecimalDigits[k] : k \in 1..10} \cup DOMAIN OtherCodes

CharCodes ==
    [c \in Chars |->
        IF \E k \in 1..26 : LowerLetters[k] = c
        THEN 96 + (CHOOSE k \in 1..26 : LowerLetters[k] = c)
        ELSE IF \E k \in 1..26 : UpperLetters[k] = c
        THEN 64 + (CHOOSE k \in 1..26 : UpperLetters[k] = c)
        ELSE IF \E k \in 1..10 : DecimalDigits[k] = c
        THEN 47 + (CHOOSE k \in 1..10 : DecimalDigits[k] = c)
        ELSE OtherCodes[c]]

\* str.charCodeAt(i), i counted from 0
charCodeAt(str, n) == CharCodes[str[n + 1]]

LowerCases ==
    [c \in Chars |->
        IF \E k \in 1..26 : UpperLetters[k] = c
        THEN LowerLetters[CHOOSE k \in 1..26 : UpperLetters[k] = c]
        ELSE c]

toLowerCase(text) == [k \in 1..Len(text) |-> LowerCases[text[k]]]

\* \w of a regular expression without the u flag: [A-Za-z0-9_]
WordChars ==
    {LowerLetters[k] : k \in 1..26} \cup {UpperLetters[k] : k \in 1..26}
    \cup {DecimalDigits[k] : k \in 1..10} \cup {"_"}

\* \s, as far as Chars goes
SpaceChars == {" ", "\t"}

(***************************************************************************)
(* fnv1a64.                                                                *)
(***************************************************************************)
FNV_OFFSET_BASIS ==
    BigIntFromDecimal(<<1, 4, 6, 9, 5, 9, 8, 1, 0, 3, 9, 3, 4, 6, 6, 5, 6, 0, 3, 7>>)

FNV_PRIME == BigIntFromDecimal(<<1, 0, 9, 9, 5, 1, 1, 6, 2, 8, 2, 1, 1>>)

MASK_64 == BigMinusOne(BigShiftLeft(<<1>>, HashBits))

\* seeded fault: FNV-1, which multiplies before it folds the character in
RECURSIVE FnvLoop_MultiplyFirst(_, _, _)
FnvLoop_MultiplyFirst(hash, str, n) ==
    IF n < Len(str)
    THEN FnvLoop_MultiplyFirst(
             BigXor(BigAnd(BigMul(hash, FNV_PRIME), MASK_64),
                    BigFromNumber(charCodeAt(str, n))),
             str, n + 1)
    ELSE hash

\* hash ^= BigInt(str.charCodeAt(i)); hash = (hash * FNV_PRIME) & MASK_64;
RECURSIVE FnvLoop(_, _, _)
FnvLoop(hash, str, n) ==
    IF n < Len(str)
    THEN FnvLoop(BigAnd(BigMul(BigXor(hash, BigFromNumber(charCodeAt(str, n))),
                               FNV_PRIME),
                        MASK_64),
                 str, n + 1)
    ELSE hash

fnv1a64(str) == FnvLoop(FNV_OFFSET_BASIS, str, 0)

(***************************************************************************)
(* tokenize: text.toLowerCase().replace(/[^\w\s]/g, ' ').split(/\s+/)      *)
(* .filter(word => word.length >= minLength).  split gives the pieces      *)
(* between the runs of white space, the empty pieces before a leading run  *)
(* and after a trailing one included.                                      *)
(***************************************************************************)
replaceNonWord(text) ==
    [k \in 1..Len(text) |->
        IF text[k] \in WordChars \/ text[k] \in SpaceChars THEN text[k] ELSE " "]

RECURSIVE SplitLoop(_, _, _, _)
SplitLoop(s, k, word, inRun) ==
    IF k > Len(s) THEN <<word>>
    ELSE IF s[k] \in SpaceChars
    THEN IF inRun THEN SplitLoop(s, k + 1, word, TRUE)
         ELSE <<word>> \o SplitLoop(s, k + 1, <<>>, TRUE)
    ELSE SplitLoop(s, k + 1, Append(word, s[k]), FALSE)

split(s) == SplitLoop(s, 1, <<>>, FALSE)

RECURSIVE filterByLength(_, _)
filterByLength(words, minLength) ==
    IF words = <<>> THEN <<>>
    ELSE IF Len(Head(words)) >= minLength
    THEN <<Head(words)>> \o filterByLength(Tail(words), minLength)
    ELSE filterByLength(Tail(words), minLength)

\* seeded fault: words of one character are kept
tokenize_KeepsShort(text, minLength) ==
    filterByLength(split(replaceNonWord(toLowerCase(text))), 1)

tokenize(text, minLength) ==
    filterByLength(split(replaceNonWord(toLowerCase(text))), minLength)

(***************************************************************************)
(* The shared tokenizer of src/text/tokenizer.ts.  Its options are         *)
(* optional: a field is <<>> when absent and <<v>> when given, and         *)
(* destructuring puts the default in the place of an absent one.           *)
(***************************************************************************)
STOPWORDS ==
    {<<"a">>, <<"a", "n">>, <<"t", "h", "e">>, <<"a", "n", "d">>,
     <<"o", "r">>, <<"b", "u", "t">>, <<"i", "n">>, <<"o", "n">>,
     <<"a", "t">>, <<"t", "o">>, <<"f", "o", "r">>, <<"o", "f">>,
     <<"w", "i", "t", "h">>, <<"b", "y">>, <<"f", "r", "o", "m">>,
     <<"a", "s">>, <<"i", "s">>, <<"w", "a", "s">>, <<"a", "r", "e">>,
     <<"w", "e", "r", "e">>, <<"b", "e", "e", "n">>, <<"b", "e">>,
     <<"h", "a", "v", "e">>, <<"h", "a", "s">>, <<"h", "a", "d">>,
     <<"d", "o">>, <<"d", "o", "e", "s">>, <<"d", "i", "d">>,
     <<"w", "i", "l", "l">>, <<"w", "o", "u", "l", "d">>,
     <<"c", "o", "u", "l", "d">>, <<"s", "h", "o", "u", "l", "d">>,
     <<"m", "a", "y">>, <<"m", "i", "g", "h", "t">>, <<"m", "u", "s", "t">>,
     <<"s", "h", "a", "l", "l">>, <<"c", "a", "n">>, <<"n", "e", "e", "d">>,
     <<"d", "a", "r", "e">>, <<"o", "u", "g", "h", "t">>,
     <<"u", "s", "e", "d">>, <<"t", "h", "i", "s">>, <<"t", "h", "a", "t">>,
     <<"t", "h", "e", "s", "e">>, <<"t", "h", "o", "s", "e">>, <<"i">>,
     <<"y", "o", "u">>, <<"h", "e">>, <<"s", "h", "e">>, <<"i", "t">>,
     <<"w", "e">>, <<"t", "h", "e", "y">>, <<"w", "h", "a", "t">>,
     <<"w", "h", "i", "c", "h">>, <<"w", "h", "o">>, <<"w", "h", "o", "m">>,
     <<"w", "h", "e", "r", "e">>, <<"w", "h", "e", "n">>, <<"w", "h", "y">>,
     <<"h", "o", "w">>, <<"a", "l", "l">>, <<"e", "a", "c", "h">>,
     <<"e", "v", "e", "r", "y">>, <<"b", "o", "t", "h">>, <<"f", "e", "w">>,
     <<"m", "o", "r", "e">>, <<"m", "o", "s", "t">>,
     <<"o", "t", "h", "e", "r">>, <<"s", "o", "m", "e">>,
     <<"s", "u", "c", "h">>, <<"n", "o">>, <<"n", "o", "r">>,
     <<"n", "o", "t">>, <<"o", "n", "l", "y">>, <<"o", "w", "n">>,
     <<"s", "a", "m", "e">>, <<"s", "o">>, <<"t", "h", "a", "n">>,
     <<"t", "o", "o">>, <<"v", "e", "r", "y">>, <<"s">>, <<"t">>,
     <<"j", "u", "s", "t">>, <<"d", "o", "n">>, <<"n", "o", "w">>}

WithDefault(field, default) == IF field = <<>> THEN default ELSE field[1]

\* .replace(/[^\w\s'-]/g, ' ')
replaceNonWordQuoteHyphen(text) ==
    [k \in 1..Len(text) |->
        IF text[k] \in WordChars \/ text[k] \in SpaceChars \/ text[k] \in {"'", "-"}
        THEN text[k] ELSE " "]

\* tokens.filter(word => !STOPWORDS.has(word.toLowerCase()))
RECURSIVE filterStopwords(_)
filterStopwords(words) ==
    IF words = <<>> THEN <<>>
    ELSE IF toLowerCase(Head(words)) \in STOPWORDS
    THEN filterStopwords(Tail(words))
    ELSE <<Head(words)>> \o filterStopwords(Tail(words))

\* tokenize(text, options) of src/text/tokenizer.ts
Tokenizer_tokenize(text, options) ==
    LET minLength == WithDefault(options.minLength, 2)
        removeStopwords == WithDefault(options.removeStopwords, FALSE)
        lowercase == WithDefault(options.lowercase, TRUE)
        processed == IF lowercase THEN toLowerCase(text) ELSE text
        tokens == filterByLength(split(replaceNonWordQuoteHyphen(processed)),
                                 minLength)
    IN  IF removeStopwords THEN filterStopwords(tokens) ELSE tokens

(***************************************************************************)
(* computeSimHash.                                                         *)
(***************************************************************************)
\* const bit = Number((hash >> BigInt(i)) & 1n); vector[i] += bit === 1 ? 1 : -1;
AddVotes(vector, hash) ==
    [n \in 0..(HashBits - 1) |->
        vector[n] + (IF BigAndOne(BigShiftRight(hash, n)) = 1 THEN 1 ELSE -1)]

RECURSIVE VoteLoop(_, _, _)
VoteLoop(vector, tokens, k) ==
    IF k > Len(tokens) THEN vector
    ELSE VoteLoop(AddVotes(vector, fnv1a64(tokens[k])), tokens, k + 1)

\* seeded fault: a tie sets the bit
RECURSIVE FingerprintLoop_TieSets(_, _, _)
FingerprintLoop_TieSets(vector, from, to) ==
    IF to - from = 1
    THEN IF vector[from] >= 0 THEN BigShiftLeft(<<1>>, from) ELSE <<>>
    ELSE BigOr(FingerprintLoop_TieSets(vector, from, (from + to) \div 2),
               FingerprintLoop_TieSets(vector, (from + to) \div 2, to))

\* what the rounds from <= i < to of
\* if (vector[i] > 0) { fingerprint |= 1n << BigInt(i); }
\* add to fingerprint.  Every round ORs in a bit of its own, so the rounds
\* are joined pairwise, which keeps the evaluation shallow.
RECURSIVE FingerprintLoop(_, _, _)
FingerprintLoop(vector, from, to) ==
    IF to - from = 1
    THEN IF vector[from] > 0 THEN BigShiftLeft(<<1>>, from) ELSE <<>>
    ELSE BigOr(FingerprintLoop(vector, from, (from + to) \div 2),
               FingerprintLoop(vector, (from + to) \div 2, to))

computeSimHash(text) ==
    LET tokens == tokenize(text, 2)
    IN  IF Len(tokens) = 0 THEN Return(Rep("0", 16))
        ELSE Return(padStart(
                 BigToString16(
                     FingerprintLoop(
                         VoteLoop([n \in 0..(HashBits - 1) |-> 0], tokens, 1),
                         0, HashBits)),
                 16, "0"))

(***************************************************************************)
(* State.  The first group of variables is one call of                     *)
(* groupArticlesBySimilarity: its arguments, its locals, the position of   *)
(* its control and its completion.  comparisons is the trace of the calls  *)
(* of calculateHammingDistance it has made, as <<center id, candidate id>>.*)
(* The second group is one call of each comparator on the pair             *)
(* (hashA, hashB).  The third group is one call of getMatchType and of     *)
(* distanceToSimilarity on distanceArg.  The fourth is one call of fnv1a64 *)
(* on strArg, the fifth one call of computeSimHash on textArg.  When two   *)
(* calls of groupArticlesBySimilarity are in progress, the first group is  *)
(* the call that is running (call number running) and parked holds the     *)
(* arguments, locals and position of the other one.                        *)
(***************************************************************************)
VARIABLES articles, threshold, pc, sorted, assigned, groups, i, j, group,
          totalDistance, comparisons, thrown,
          hashA, hashB, validated, fast,
          distanceArg, matchType, similarity,
          strArg, fnvResult,
          textArg, simHashResult,
          running, parked,
          tokenizerText, tokenizerOptions, simHashTokens, tokenizerTokens

grouperVars == <<articles, threshold, pc, sorted, assigned, groups, i, j,
                 group, totalDistance, comparisons, thrown>>

comparatorVars == <<hashA, hashB, validated, fast>>

scoreVars == <<distanceArg, matchType, similarity>>

fnvVars == <<strArg, fnvResult>>

simHashVars == <<textArg, simHashResult>>

callVars == <<running, parked>>

tokenizerVars == <<tokenizerText, tokenizerOptions, simHashTokens, tokenizerTokens>>

outsideGrouper == <<comparatorVars, scoreVars, fnvVars, simHashVars, callVars, tokenizerVars>>

outsideComparators == <<grouperVars, scoreVars, fnvVars, simHashVars, callVars, tokenizerVars>>

outsideScores == <<grouperVars, comparatorVars, fnvVars, simHashVars, callVars, tokenizerVars>>

outsideFnv == <<grouperVars, comparatorVars, scoreVars, simHashVars, callVars, tokenizerVars>>

outsideSimHash == <<grouperVars, comparatorVars, scoreVars, fnvVars, callVars, tokenizerVars>>

outsideCalls == <<comparatorVars, scoreVars, fnvVars, simHashVars, tokenizerVars>>

outsideTokenizers ==
    <<grouperVars, comparatorVars, scoreVars, fnvVars, simHashVars, callVars>>

vars == <<grouperVars, comparatorVars, scoreVars, fnvVars, simHashVars, callVars,
          tokenizerVars>>

Pending == [kind |-> "pending", value |-> 0]

NoGroup == [id |-> <<"cluster-", 0>>, centerArticleId |-> "",
            memberIds |-> <<>>, averageDistance |-> [num |-> 0, den |-> 1]]

(***************************************************************************)
(* Inputs.                                                                 *)
(***************************************************************************)
ArticleIds == <<"a1", "a2", "a3", "a4", "a5", "a6">>

Zeros == Rep("0", 16)

Ones == Rep("f", 16)

LowBits(c) == Rep("0", 15) \o <<c>>

\* fingerprints handed to the grouper: three at mutual distances 0, 1 and 2,
\* and one string of 15 characters
FingerprintPool == {Zeros, LowBits("1"), LowBits("3"), Rep("0", 15)}

\* strings handed to the comparators
HashPool ==
    FingerprintPool \cup
    {Ones, LowBits("g"), <<"e">> \o Rep("f", 15), <<"f">> \o Rep("0", 15), Rep("F", 16),
     Rep("0", 4) \o Rep("f", 4) \o Rep("0", 4) \o Rep("f", 4),
     <<"a", "1", "b", "2", "c", "3", "d", "4", "e", "5", "f", "6", "a", "7", "b", "8">>,
     <<"a", "1", "b", "2", "c", "3", "d", "4", "e", "5", "f", "6", "a", "7", "b", "9">>,
     <<>>, <<"s", "h", "o", "r", "t">>, Rep("0", 17), Rep("g", 16),
     <<"-", "0", "0", "1">> \o Rep("0", 12),
     <<"0", "x", "1", "f">> \o Rep("0", 12),
     Rep("0", 12) \o <<" ", " ", "f", "f">>,
     Rep("f", 15) \o <<" ">>}

Thresholds == (-1)..MaxThreshold

\* the batch whose k-th article has id ArticleIds[k], fingerprint f[k] and
\* time value t[k]
Batch(n, f, t) ==
    [k \in 1..n |-> [id |-> ArticleIds[k], simHash |-> f[k], publishedAt |-> t[k]]]

GrouperIdle ==
    /\ pc = "idle" /\ articles = <<>> /\ threshold = 3
    /\ sorted = <<>> /\ assigned = {} /\ groups = <<>> /\ i = 0 /\ j = 0
    /\ group = NoGroup /\ totalDistance = 0 /\ comparisons = <<>>
    /\ thrown = ""

ComparatorIdle ==
    /\ hashA = <<>> /\ hashB = <<>> /\ validated = Pending /\ fast = Pending

ScoresIdle ==
    /\ distanceArg = 0 /\ matchType = Pending /\ similarity = Pending

FnvIdle == strArg = <<>> /\ fnvResult = Pending

SimHashIdle == textArg = <<>> /\ simHashResult = Pending

\* the arguments, locals and position of a call, as one record
Frame(a, t, p, s, as, gs, ii, jj, g, total, cs, th) ==
    [articles |-> a, threshold |-> t, pc |-> p, sorted |-> s, assigned |-> as,
     groups |-> gs, i |-> ii, j |-> jj, group |-> g, totalDistance |-> total,
     comparisons |-> cs, thrown |-> th]

NoFrame == Frame(<<>>, 3, "idle", <<>>, {}, <<>>, 0, 0, NoGroup, 0, <<>>, "")

CallsIdle == running = 0 /\ parked = NoFrame

NoOptions == [minLength |-> <<>>, removeStopwords |-> <<>>, lowercase |-> <<>>]

TokenizersIdle ==
    /\ tokenizerText = <<>> /\ tokenizerOptions = NoOptions
    /\ simHashTokens = Pending /\ tokenizerTokens = Pending

Init ==
    /\ \E n \in 0..MaxDocs :
          \E f \in [1..n -> FingerprintPool], t \in [1..n -> 1..MaxTs] :
             articles = Batch(n, f, t)
    /\ threshold \in Thresholds
    /\ pc = "start"
    /\ sorted = <<>> /\ assigned = {} /\ groups = <<>> /\ i = 0 /\ j = 0
    /\ group = NoGroup /\ totalDistance = 0 /\ comparisons = <<>>
    /\ thrown = ""
    /\ ComparatorIdle
    /\ ScoresIdle
    /\ FnvIdle
    /\ SimHashIdle
    /\ CallsIdle
    /\ TokenizersIdle

(***************************************************************************)
(* [...articles].sort((a, b) => time(b) - time(a)): Array.prototype.sort   *)
(* is stable, so an element moves in front of exactly those the comparator *)
(* puts strictly after it.                                                 *)
(***************************************************************************)
getTime(publishedAt) == publishedAt

\* seeded fault: the comparator sorts oldest first
compareFn_Ascending(a, b) == getTime(a.publishedAt) - getTime(b.publishedAt)

compareFn(a, b) == getTime(b.publishedAt) - getTime(a.publishedAt)

\* seeded fault: an element also moves in front of those the comparator puts
\* level with it, as an unstable sort may do
RECURSIVE InsertStable_TiesMove(_, _)
InsertStable_TiesMove(s, x) ==
    IF s # <<>> /\ compareFn(s[Len(s)], x) >= 0
    THEN Append(InsertStable_TiesMove(SubSeq(s, 1, Len(s) - 1), x), s[Len(s)])
    ELSE Append(s, x)

RECURSIVE InsertStable(_, _)
InsertStable(s, x) ==
    IF s # <<>> /\ compareFn(s[Len(s)], x) > 0
    THEN Append(InsertStable(SubSeq(s, 1, Len(s) - 1), x), s[Len(s)])
    ELSE Append(s, x)

RECURSIVE sortNewestFirst(_)
sortNewestFirst(list) ==
    IF list = <<>> THEN <<>>
    ELSE InsertStable(sortNewestFirst(SubSeq(list, 1, Len(list) - 1)),
                      list[Len(list)])

(***************************************************************************)
(* The expressions of the loop bodies of groupArticlesBySimilarity.        *)
(***************************************************************************)
\* { id: `cluster-${groups.length + 1}`, centerArticleId, memberIds, 0 }
newGroup(groupCount, article) ==
    [id |-> <<"cluster-", groupCount + 1>>,
     centerArticleId |-> article.id,
     memberIds |-> <<article.id>>,
     averageDistance |-> [num |-> 0, den |-> 1]]

\* seeded fault: the candidate's id is not compared with the center's
isSkipped_OnlyAssigned(candidate, article, assignedIds) ==
    candidate.id \in assignedIds

\* seeded fault: a candidate that is already assigned is compared again
isSkipped_IgnoresAssigned(candidate, article, assignedIds) ==
    candidate.id = article.id

\* candidate.id === article.id || assigned.has(candidate.id)
isSkipped(candidate, article, assignedIds) ==
    candidate.id = article.id \/ candidate.id \in assignedIds

\* seeded fault: one bit more than the threshold is admitted
withinThreshold_OffByOne(distance, limit) == distance <= limit + 1

\* seeded fault: strict comparison
withinThreshold_Strict(distance, limit) == distance < limit

\* distance <= threshold
withinThreshold(distance, limit) == distance <= limit

\* seeded fault: unshift instead of push
pushMember_Unshift(g, id) == [g EXCEPT !.memberIds = <<id>> \o @]

\* group.memberIds.push(candidate.id)
pushMember(g, id) == [g EXCEPT !.memberIds = Append(@, id)]

\* seeded fault: the id is not added to the set
addAssigned_Forgets(assignedIds, id) == assignedIds

\* assigned.add(id)
addAssigned(assignedIds, id) == assignedIds \cup {id}

\* seeded fault: the total is divided by the number of members, center included
withAverage_CountsCenter(g, total) ==
    IF Len(g.memberIds) > 1
    THEN [g EXCEPT !.averageDistance = [num |-> total, den |-> Len(g.memberIds)]]
    ELSE g

\* if (memberIds.length > 1) averageDistance = totalDistance / (length - 1);
\* the quotient is kept as the fraction num / den
withAverage(g, total) ==
    IF Len(g.memberIds) > 1
    THEN [g EXCEPT !.averageDistance =
             [num |-> total, den |-> Len(g.memberIds) - 1]]
    ELSE g

(***************************************************************************)
(* groupArticlesBySimilarity, one action per branch of its control flow.   *)
(***************************************************************************)
\* seeded fault: no early return, the empty batch yields one empty group
ReturnEmpty_OneGroup ==
    /\ pc = "start"
    /\ Len(articles) = 0
    /\ pc' = "done"
    /\ groups' = <<NoGroup>>
    /\ UNCHANGED <<articles, threshold, sorted, assigned, i, j, group,
                   totalDistance, comparisons, thrown>>
    /\ UNCHANGED <<hashA, hashB, validated, fast>>
    /\ UNCHANGED <<scoreVars, fnvVars, simHashVars, callVars, tokenizerVars>>

\* if (articles.length === 0) return [];
ReturnEmpty ==
    /\ pc = "start"
    /\ Len(articles) = 0
    /\ pc' = "done"
    /\ UNCHANGED <<articles, threshold, sorted, assigned, groups, i, j, group,
                   totalDistance, comparisons, thrown>>
    /\ UNCHANGED outsideGrouper

\* groups = [], assigned = new Set(), sorted = [...articles].sort(...)
SortArticles ==
    /\ pc = "start"
    /\ Len(articles) # 0
    /\ groups' = <<>>
    /\ assigned' = {}
    /\ sorted' = sortNewestFirst(articles)
    /\ i' = 1
    /\ pc' = "outer"
    /\ UNCHANGED <<articles, threshold, j, group, totalDistance, comparisons,
                   thrown>>
    /\ UNCHANGED outsideGrouper

\* for (const article of sorted) { if (assigned.has(article.id)) continue;
SkipAssigned ==
    /\ pc = "outer"
    /\ i <= Len(sorted)
    /\ sorted[i].id \in assigned
    /\ i' = i + 1
    /\ UNCHANGED <<articles, threshold, pc, sorted, assigned, groups, j, group,
                   totalDistance, comparisons, thrown>>
    /\ UNCHANGED outsideGrouper

\* const group = { id, centerArticleId, memberIds: [article.id], 0 };
\* let totalDistance = 0;
StartGroup ==
    /\ pc = "outer"
    /\ i <= Len(sorted)
    /\ sorted[i].id \notin assigned
    /\ group' = newGroup(Len(groups), sorted[i])
    /\ totalDistance' = 0
    /\ j' = 1
    /\ pc' = "inner"
    /\ UNCHANGED <<articles, threshold, sorted, assigned, groups, i,
                   comparisons, thrown>>
    /\ UNCHANGED outsideGrouper

\* if (candidate.id === article.id || assigned.has(candidate.id)) continue;
SkipCandidate ==
    /\ pc = "inner"
    /\ j <= Len(sorted)
    /\ isSkipped(sorted[j], sorted[i], assigned)
    /\ j' = j + 1
    /\ UNCHANGED <<articles, threshold, pc, sorted, assigned, groups, i, group,
                   totalDistance, comparisons, thrown>>
    /\ UNCHANGED outsideGrouper

\* const distance = calculateHammingDistance(article.simHash, candidate.simHash);
\* if (distance <= threshold) { push, add, totalDistance += distance }
CompareCandidate ==
    /\ pc = "inner"
    /\ j <= Len(sorted)
    /\ ~isSkipped(sorted[j], sorted[i], assigned)
    /\ comparisons' = Append(comparisons, <<sorted[i].id, sorted[j].id>>)
    /\ \E distance \in {calculateHammingDistance(sorted[i].simHash, sorted[j].simHash)} :
           IF distance.kind = "throw"
           THEN /\ pc' = "threw"
                /\ thrown' = distance.value
                /\ UNCHANGED <<group, assigned, totalDistance, j>>
           ELSE /\ IF withinThreshold(distance.value, threshold)
                   THEN /\ group' = pushMember(group, sorted[j].id)
                        /\ assigned' = addAssigned(assigned, sorted[j].id)
                        /\ totalDistance' = totalDistance + distance.value
                   ELSE UNCHANGED <<group, assigned, totalDistance>>
                /\ j' = j + 1
                /\ UNCHANGED <<pc, thrown>>
    /\ UNCHANGED <<articles, threshold, sorted, groups, i>>
    /\ UNCHANGED outsideGrouper

\* after the scan: averageDistance, assigned.add(article.id), groups.push(group)
FinishGroup ==
    /\ pc = "inner"
    /\ j > Len(sorted)
    /\ groups' = Append(groups, withAverage(group, totalDistance))
    /\ assigned' = addAssigned(assigned, sorted[i].id)
    /\ i' = i + 1
    /\ pc' = "outer"
    /\ group' = NoGroup
    /\ totalDistance' = 0
    /\ j' = 0
    /\ UNCHANGED <<articles, threshold, sorted, comparisons, thrown>>
    /\ UNCHANGED outsideGrouper

\* return groups;
ReturnGroups ==
    /\ pc = "outer"
    /\ i > Len(sorted)
    /\ pc' = "done"
    /\ UNCHANGED <<articles, threshold, sorted, assigned, groups, i, j, group,
                   totalDistance, comparisons, thrown>>
    /\ UNCHANGED outsideGrouper

Next ==
    \/ ReturnEmpty
    \/ SortArticles
    \/ SkipAssigned
    \/ StartGroup
    \/ SkipCandidate
    \/ CompareCandidate
    \/ FinishGroup
    \/ ReturnGroups

Spec == Init /\ [][Next]_vars

(***************************************************************************)
(* Two calls of groupArticlesBySimilarity on two batches, interleaved step *)
(* by step.  Everything a call works on is its arguments and the locals    *)
(* declared in its body (groups and assigned at lines 24-25, the sorted    *)
(* copy at line 28), so a call that is resumed finds them as it left them. *)
(* The second batch takes its ids one further along ArticleIds, so the two *)
(* batches have an id in common; the first call runs with the default      *)
(* threshold, the second with 0.                                           *)
(***************************************************************************)
MaxInterleavedDocs == 2

InterleavedPool == {Zeros, LowBits("1"), Rep("0", 15)}

InterleavedThresholds == <<3, 0>>

\* the batch of n articles whose k-th has id ArticleIds[k + shift],
\* fingerprint f[k] and time value k
BatchFrom(shift, n, f) ==
    [k \in 1..n |->
        [id |-> ArticleIds[k + shift], simHash |-> f[k], publishedAt |-> k]]

\* a call at its entry
EntryFrame(a, t) == Frame(a, t, "start", <<>>, {}, <<>>, 0, 0, NoGroup, 0, <<>>, "")

RunningFrame ==
    Frame(articles, threshold, pc, sorted, assigned, groups, i, j, group,
          totalDistance, comparisons, thrown)

InitInterleaved ==
    /\ \E n \in 0..MaxInterleavedDocs :
          \E f \in [1..n -> InterleavedPool] : articles = BatchFrom(0, n, f)
    /\ threshold = InterleavedThresholds[1]
    /\ pc = "start"
    /\ sorted = <<>> /\ assigned = {} /\ groups = <<>> /\ i = 0 /\ j = 0
    /\ group = NoGroup /\ totalDistance = 0 /\ comparisons = <<>>
    /\ thrown = ""
    /\ running = 1
    /\ \E n \in 0..MaxInterleavedDocs :
          \E f \in [1..n -> InterleavedPool] :
             parked = EntryFrame(BatchFrom(1, n, f), InterleavedThresholds[2])
    /\ ComparatorIdle
    /\ ScoresIdle
    /\ FnvIdle
    /\ SimHashIdle
    /\ TokenizersIdle

\* seeded fault: assigned is one set of the module, shared by the calls
resumedAssigned_Shared(frame) == assigned

\* const assigned = new Set<string>(): the set of the call that is resumed
resumedAssigned(frame) == frame.assigned

\* the running call is suspended between two of its steps and the other one,
\* which has not completed, is resumed
Switch ==
    /\ running \in {1, 2}
    /\ parked.pc \notin {"done", "threw"}
    /\ running' = 3 - running
    /\ parked' = RunningFrame
    /\ articles' = parked.articles
    /\ threshold' = parked.threshold
    /\ pc' = parked.pc
    /\ sorted' = parked.sorted
    /\ assigned' = resumedAssigned(parked)
    /\ groups' = parked.groups
    /\ i' = parked.i
    /\ j' = parked.j
    /\ group' = parked.group
    /\ totalDistance' = parked.totalDistance
    /\ comparisons' = parked.comparisons
    /\ thrown' = parked.thrown
    /\ UNCHANGED outsideCalls

NextInterleaved ==
    \/ ReturnEmpty
    \/ SortArticles
    \/ SkipAssigned
    \/ StartGroup
    \/ SkipCandidate
    \/ CompareCandidate
    \/ FinishGroup
    \/ ReturnGroups
    \/ Switch

SpecInterleaved == InitInterleaved /\ [][NextInterleaved]_vars

(***************************************************************************)
(* The comparators as called on their own: one call of each on a pair of   *)
(* strings.                                                                *)
(***************************************************************************)
InitComparators ==
    /\ hashA \in HashPool
    /\ hashB \in HashPool
    /\ validated = Pending
    /\ fast = Pending
    /\ GrouperIdle
    /\ ScoresIdle
    /\ FnvIdle
    /\ SimHashIdle
    /\ CallsIdle
    /\ TokenizersIdle

CallValidated ==
    /\ validated = Pending
    /\ validated' = calculateHammingDistance(hashA, hashB)
    /\ UNCHANGED <<hashA, hashB, fast>>
    /\ UNCHANGED outsideComparators

CallFast ==
    /\ fast = Pending
    /\ fast' = hammingDistance(hashA, hashB)
    /\ UNCHANGED <<hashA, hashB, validated>>
    /\ UNCHANGED outsideComparators

NextComparators == CallValidated \/ CallFast

SpecComparators == InitComparators /\ [][NextComparators]_vars

(***************************************************************************)
(* Vocabulary of the properties.                                           *)
(***************************************************************************)
Returned == pc = "done"

InputIds == {articles[k].id : k \in 1..Len(articles)}

DistinctIds ==
    \A k, l \in 1..Len(articles) : k # l => articles[k].id # articles[l].id

IndexOf(id) == CHOOSE k \in 1..Len(articles) : articles[k].id = id

ArticleOf(id) == articles[IndexOf(id)]

\* a fingerprint is well formed when it is 16 hexadecimal characters
WellFormed(h) == Len(h) = 16 /\ \A k \in 1..16 : IsHexDigit(h[k])

\* bit p (0 = least significant) of the four bits of a hex digit's value
BitAt(x, p) == (x \div (2 ^ p)) % 2

\* the number of bit positions in which two hex digits' values differ
DigitDifference ==
    [x \in 0..15 |-> [y \in 0..15 |->
        Cardinality({p \in 0..3 : BitAt(x, p) # BitAt(y, p)})]]

\* the number of bit positions in which the 64-bit values of two well-formed
\* strings differ: digit k of one faces digit k of the other
RECURSIVE DifferenceFrom(_, _, _)
DifferenceFrom(a, b, k) ==
    IF k > 16 THEN 0
    ELSE DigitDifference[HexVal(a[k])][HexVal(b[k])] + DifferenceFrom(a, b, k + 1)

BitDifference(a, b) == DifferenceFrom(a, b, 1)

RECURSIVE Flatten(_)
Flatten(gs) ==
    IF gs = <<>> THEN <<>> ELSE gs[1].memberIds \o Flatten(Tail(gs))

Occurrences(list, x) == Cardinality({k \in 1..Len(list) : list[k] = x})

OtherMembers(g) == Tail(g.memberIds)

\* the group, finished or being built, whose center has the given id
IsGroupOfCenter(g, c) == g.centerArticleId = c

\* the finished groups and, while one is being built, that one
GroupsSoFar == IF group # NoGroup THEN Append(groups, group) ELSE groups

(***************************************************************************)
(* C1: partition.  When groupArticlesBySimilarity returns for a batch with *)
(* pairwise distinct ids, every input id occurs exactly once across the    *)
(* memberIds of the returned clusters, and no other id occurs in them.     *)
(***************************************************************************)
C1_Partition ==
    (Returned /\ DistinctIds) =>
        LET all == Flatten(groups)
        IN  /\ \A id \in InputIds : Occurrences(all, id) = 1
            /\ \A k \in 1..Len(all) : all[k] \in InputIds

C1_Witness ==
    /\ Returned
    /\ Len(articles) = 3
    /\ Len(groups) = 2
    /\ \E g \in 1..2 : Len(groups[g].memberIds) = 2

(***************************************************************************)
(* C2: admission by distance to the center.  In every returned cluster     *)
(* each non-center member with a well-formed fingerprint is at Hamming     *)
(* distance <= threshold from the (well-formed) center; and of the         *)
(* candidates the call has compared with a center before it returns, one   *)
(* at distance exactly threshold is in that center's cluster and one at    *)
(* distance threshold + 1 is not.                                          *)
(***************************************************************************)
CenterDistance(c, m) == BitDifference(ArticleOf(c).simHash, ArticleOf(m).simHash)

BothWellFormed(c, m) ==
    WellFormed(ArticleOf(c).simHash) /\ WellFormed(ArticleOf(m).simHash)

InGroupOf(c, m) ==
    \E g \in 1..Len(GroupsSoFar) :
        /\ IsGroupOfCenter(GroupsSoFar[g], c)
        /\ \E k \in 1..Len(GroupsSoFar[g].memberIds) :
              GroupsSoFar[g].memberIds[k] = m

C2_MembersWithinThreshold ==
    Returned =>
        /\ \A g \in 1..Len(groups) : \A k \in 2..Len(groups[g].memberIds) :
              LET c == groups[g].centerArticleId
                  m == groups[g].memberIds[k]
              IN  BothWellFormed(c, m) => CenterDistance(c, m) <= threshold
        /\ \A n \in 1..Len(comparisons) :
              LET c == comparisons[n][1]
                  m == comparisons[n][2]
              IN  BothWellFormed(c, m) =>
                     /\ CenterDistance(c, m) = threshold => InGroupOf(c, m)
                     /\ CenterDistance(c, m) = threshold + 1 => ~InGroupOf(c, m)

\* a returned cluster with a member at exactly the threshold, whose center
\* was also compared with a candidate one bit farther
C2_Witness ==
    /\ Returned
    /\ threshold = 1
    /\ \E a, b \in 1..Len(comparisons) :
          /\ comparisons[a][1] = comparisons[b][1]
          /\ BothWellFormed(comparisons[a][1], comparisons[a][2])
          /\ BothWellFormed(comparisons[b][1], comparisons[b][2])
          /\ CenterDistance(comparisons[a][1], comparisons[a][2]) = 1
          /\ InGroupOf(comparisons[a][1], comparisons[a][2])
          /\ CenterDistance(comparisons[b][1], comparisons[b][2]) = 2
          /\ ~InGroupOf(comparisons[b][1], comparisons[b][2])

(***************************************************************************)
(* C4: the center is the newest of its cluster.  When the call returns, no *)
(* member of a cluster has a time value later than the cluster's center;   *)
(* and while a cluster is being built its center is the first article of   *)
(* the most-recent-first order that was not yet assigned.                  *)
(***************************************************************************)
TimeOf(id) == getTime(ArticleOf(id).publishedAt)

MostRecentFirst(list) ==
    \A k, l \in 1..Len(list) :
        k < l => getTime(list[k].publishedAt) >= getTime(list[l].publishedAt)

C4_CenterIsNewest ==
    DistinctIds =>
        /\ Returned =>
              \A g \in 1..Len(groups) : \A k \in 1..Len(groups[g].memberIds) :
                 TimeOf(groups[g].memberIds[k]) <= TimeOf(groups[g].centerArticleId)
        /\ pc = "inner" =>
              /\ MostRecentFirst(sorted)
              /\ group.centerArticleId = sorted[i].id
              /\ sorted[i].id \notin assigned
              /\ \A k \in 1..(i - 1) : sorted[k].id \in assigned

\* a returned cluster whose center is not the first article of the input and
\* is strictly newer than another of its members
C4_Witness ==
    /\ Returned
    /\ \E g \in 1..Len(groups) :
          /\ groups[g].centerArticleId # articles[1].id
          /\ \E k \in 2..Len(groups[g].memberIds) :
                TimeOf(groups[g].memberIds[k]) < TimeOf(groups[g].centerArticleId)

(***************************************************************************)
(* C5: order of memberIds.  In every returned cluster memberIds starts     *)
(* with the center id, which occurs in it once, and the other members      *)
(* follow in scan order: later time value first, input order on equal time *)
(* values.                                                                 *)
(***************************************************************************)
ScannedBefore(x, y) ==
    \/ TimeOf(x) > TimeOf(y)
    \/ TimeOf(x) = TimeOf(y) /\ IndexOf(x) < IndexOf(y)

C5_MemberOrder ==
    (Returned /\ DistinctIds) =>
        \A g \in 1..Len(groups) :
            LET ids == groups[g].memberIds
            IN  /\ ids[1] = groups[g].centerArticleId
                /\ Occurrences(ids, groups[g].centerArticleId) = 1
                /\ \A k, l \in 2..Len(ids) : k < l => ScannedBefore(ids[k], ids[l])

\* a returned cluster of three whose two other members have the same time
\* value, and whose center is not the first article of the input
C5_Witness ==
    /\ Returned
    /\ \E g \in 1..Len(groups) :
          /\ Len(groups[g].memberIds) = 3
          /\ TimeOf(groups[g].memberIds[2]) = TimeOf(groups[g].memberIds[3])
          /\ groups[g].centerArticleId # articles[1].id

(***************************************************************************)
(* C6: averageDistance.  For every returned cluster averageDistance is the *)
(* sum of the Hamming distances from the center to the other members       *)
(* divided by their number, and is 0 for a cluster of its center alone;    *)
(* and it does not exceed the threshold when the threshold is >= 0.        *)
(* (averageDistance is the fraction num / den.)                            *)
(***************************************************************************)
RECURSIVE SumOfDistances(_, _)
SumOfDistances(c, ids) ==
    IF ids = <<>> THEN 0
    ELSE CenterDistance(c, Head(ids)) + SumOfDistances(c, Tail(ids))

C6_AverageDistance ==
    (Returned /\ DistinctIds) =>
        \A g \in 1..Len(groups) :
            LET avg == groups[g].averageDistance
                others == OtherMembers(groups[g])
            IN  /\ avg.den > 0
                /\ IF others = <<>>
                   THEN avg.num = 0
                   ELSE avg.num * Len(others) =
                           SumOfDistances(groups[g].centerArticleId, others) * avg.den
                /\ threshold >= 0 => avg.num <= threshold * avg.den

\* a returned cluster with two other members, at distances 0 and 1: the
\* average is 1/2
C6_Witness ==
    /\ Returned
    /\ \E g \in 1..Len(groups) :
          /\ Len(groups[g].memberIds) = 3
          /\ groups[g].averageDistance = [num |-> 1, den |-> 2]

(***************************************************************************)
(* C7: the empty batch.  For every threshold the call on an empty batch    *)
(* returns the empty cluster list and throws nothing; on a batch that is   *)
(* not empty, a call that returns returns at least one cluster.            *)
(***************************************************************************)
C7_EmptyBatch ==
    /\ (articles = <<>> /\ pc # "start") =>
          (Returned /\ groups = <<>> /\ thrown = "")
    /\ (articles # <<>> /\ Returned) => Len(groups) >= 1

C7_Witness == articles = <<>> /\ Returned /\ threshold = 0

(***************************************************************************)
(* C8: batches of two.  For two articles with distinct ids and well-formed *)
(* fingerprints the call returns one cluster holding both ids when their   *)
(* Hamming distance is <= threshold, which is exactly when                 *)
(* areArticlesSimilar holds of the pair, and two clusters of one id each   *)
(* otherwise.                                                              *)
(***************************************************************************)
MemberSet(g) == {g.memberIds[k] : k \in 1..Len(g.memberIds)}

C8_TwoArticles ==
    (/\ Returned /\ DistinctIds /\ Len(articles) = 2
     /\ WellFormed(articles[1].simHash) /\ WellFormed(articles[2].simHash)) =>
        LET similar == areArticlesSimilar(articles[1], articles[2], threshold)
            near == BitDifference(articles[1].simHash, articles[2].simHash) <= threshold
        IN  /\ similar.kind = "return"
            /\ similar.value <=> near
            /\ IF near
               THEN /\ Len(groups) = 1
                    /\ Len(groups[1].memberIds) = 2
                    /\ MemberSet(groups[1]) = InputIds
               ELSE /\ Len(groups) = 2
                    /\ Len(groups[1].memberIds) = 1
                    /\ Len(groups[2].memberIds) = 1
                    /\ MemberSet(groups[1]) \cup MemberSet(groups[2]) = InputIds

\* two articles at distance exactly the threshold, returned as one cluster
C8_Witness ==
    /\ Returned /\ Len(articles) = 2 /\ threshold = 1
    /\ WellFormed(articles[1].simHash) /\ WellFormed(articles[2].simHash)
    /\ BitDifference(articles[1].simHash, articles[2].simHash) = 1
    /\ Len(groups) = 1

(***************************************************************************)
(* C9 as claimed: if any article of the batch has a fingerprint that is    *)
(* not 16 characters long, the call does not return clusters.              *)
(***************************************************************************)
HasWrongLength == \E k \in 1..Len(articles) : Len(articles[k].simHash) # 16

C9_AnyWrongLengthThrows == HasWrongLength => ~Returned

(***************************************************************************)
(* C9 as amended: if a batch of two or more articles with distinct ids     *)
(* holds a fingerprint that is not 16 characters long, the call finishes   *)
(* no cluster and does not return: the scan of the first center ends in    *)
(* the comparator's error, which is what the caller gets.                  *)
(***************************************************************************)
C9_WrongLengthThrowsInBatch ==
    (HasWrongLength /\ DistinctIds /\ Len(articles) >= 2) =>
        /\ ~Returned
        /\ groups = <<>>
        /\ pc \in {"start", "outer", "inner", "threw"}
        /\ pc = "outer" => i = 1
        /\ pc = "inner" =>
              /\ i = 1
              /\ j <= Len(sorted)
              /\ \A k \in 2..(j - 1) :
                    Len(sorted[1].simHash) = 16 /\ Len(sorted[k].simHash) = 16
        /\ pc = "threw" => thrown = "Hashes must be 16-character hex strings"

\* the first center is well formed and has admitted a member when a later
\* candidate of the wrong length makes the comparator throw
C9_Witness ==
    /\ pc = "threw"
    /\ Len(articles) = 3
    /\ Len(sorted[1].simHash) = 16
    /\ Len(group.memberIds) = 2
    /\ groups = <<>>

(***************************************************************************)
(* C3: the validated comparator throws its format error whenever one of    *)
(* its arguments is not a string of exactly 16 hexadecimal characters (of  *)
(* another length, or 16 long with a character that is not hex), and       *)
(* returns a distance only when both are 16 hexadecimal characters.        *)
(***************************************************************************)
C3_ValidatedRejectsMalformed ==
    validated # Pending =>
        IF WellFormed(hashA) /\ WellFormed(hashB)
        THEN validated.kind = "return"
        ELSE /\ validated.kind = "throw"
             /\ validated.value = "Hashes must be 16-character hex strings"

(***************************************************************************)
(* C10: for well-formed fingerprints a and b both comparators return the   *)
(* number of bit positions in which the two 64-bit values differ; the      *)
(* distance of a fingerprint to itself is 0.                               *)
(***************************************************************************)
C10_DistanceIsBitDifference ==
    (WellFormed(hashA) /\ WellFormed(hashB)) =>
        /\ validated # Pending =>
              /\ validated.kind = "return"
              /\ validated.value = BitDifference(hashA, hashB)
              /\ hashA = hashB => validated.value = 0
        /\ fast # Pending =>
              /\ fast.kind = "return"
              /\ fast.value = BitDifference(hashA, hashB)
              /\ hashA = hashB => fast.value = 0

\* both comparators have returned 33 for a pair that differs in every chunk
C10_Witness ==
    /\ WellFormed(hashA) /\ WellFormed(hashB) /\ hashA # hashB
    /\ validated.kind = "return" /\ fast.kind = "return"
    /\ validated.value = 33 /\ fast.value = 33

(***************************************************************************)
(* The scores as called on their own: one call of getMatchType and one of  *)
(* distanceToSimilarity on an integer in or just outside 0..64.            *)
(***************************************************************************)
Overshoot == 2

DistanceArgs == (0 - Overshoot)..(HashBits + Overshoot)

InitScores ==
    /\ distanceArg \in DistanceArgs
    /\ matchType = Pending
    /\ similarity = Pending
    /\ GrouperIdle
    /\ ComparatorIdle
    /\ FnvIdle
    /\ SimHashIdle
    /\ CallsIdle
    /\ TokenizersIdle

CallGetMatchType ==
    /\ matchType = Pending
    /\ matchType' = Return(getMatchType(distanceArg))
    /\ UNCHANGED <<distanceArg, similarity>>
    /\ UNCHANGED outsideScores

CallDistanceToSimilarity ==
    /\ similarity = Pending
    /\ similarity' = Return(distanceToSimilarity(distanceArg))
    /\ UNCHANGED <<distanceArg, matchType>>
    /\ UNCHANGED outsideScores

NextScores == CallGetMatchType \/ CallDistanceToSimilarity

SpecScores == InitScores /\ [][NextScores]_vars

(***************************************************************************)
(* fnv1a64 as called on its own, on a string of at most MaxStrLen code     *)
(* units, ASCII or not.                                                    *)
(***************************************************************************)
MaxStrLen == 3

FnvChars == {"a", "b", "U+00E9", "U+20AC"}

InitFnv ==
    /\ \E n \in 0..MaxStrLen : strArg \in [1..n -> FnvChars]
    /\ fnvResult = Pending
    /\ GrouperIdle
    /\ ComparatorIdle
    /\ ScoresIdle
    /\ SimHashIdle
    /\ CallsIdle
    /\ TokenizersIdle

CallFnv1a64 ==
    /\ fnvResult.kind = "pending"
    /\ fnvResult' = Return(fnv1a64(strArg))
    /\ UNCHANGED strArg
    /\ UNCHANGED outsideFnv

NextFnv == CallFnv1a64

SpecFnv == InitFnv /\ [][NextFnv]_vars

(***************************************************************************)
(* computeSimHash as called on its own, on a text made of at most          *)
(* MaxPieces pieces: words with and without a separator, in either case,   *)
(* a one-letter word, white space, punctuation and a letter outside ASCII. *)
(***************************************************************************)
MaxPieces == 3

TextPieces ==
    {<<"a", "b", " ">>, <<"C", "d", ".">>, <<"A", "B">>, <<"x">>, <<" ">>, <<".">>,
     <<"U+00E9">>}

RECURSIVE Texts(_)
Texts(n) ==
    IF n = 0 THEN {<<>>}
    ELSE Texts(n - 1) \cup {t \o p : t \in Texts(n - 1), p \in TextPieces}

InitSimHash ==
    /\ textArg \in Texts(MaxPieces)
    /\ simHashResult = Pending
    /\ GrouperIdle
    /\ ComparatorIdle
    /\ ScoresIdle
    /\ FnvIdle
    /\ CallsIdle
    /\ TokenizersIdle

CallComputeSimHash ==
    /\ simHashResult.kind = "pending"
    /\ simHashResult' = computeSimHash(textArg)
    /\ UNCHANGED textArg
    /\ UNCHANGED outsideSimHash

NextSimHash == CallComputeSimHash

SpecSimHash == InitSimHash /\ [][NextSimHash]_vars

(***************************************************************************)
(* C11: symmetry.  For well-formed fingerprints a and b, what each         *)
(* comparator returns for (a, b) is what it returns for (b, a).            *)
(***************************************************************************)
C11_Symmetric ==
    (WellFormed(hashA) /\ WellFormed(hashB)) =>
        /\ validated # Pending =>
              /\ validated.kind = "return"
              /\ calculateHammingDistance(hashB, hashA).kind = "return"
              /\ validated.value = calculateHammingDistance(hashB, hashA).value
        /\ fast # Pending =>
              /\ fast.kind = "return"
              /\ hammingDistance(hashB, hashA).kind = "return"
              /\ fast.value = hammingDistance(hashB, hashA).value

\* both comparators have returned 4 for ('f000000000000000', all zeros)
C11_Witness ==
    /\ hashA = <<"f">> \o Rep("0", 15) /\ hashB = Zeros
    /\ validated.kind = "return" /\ fast.kind = "return"
    /\ validated.value = 4 /\ fast.value = 4

(***************************************************************************)
(* C12: range.  For well-formed fingerprints the distance either           *)
(* comparator returns is an integer from 0 to 64.                          *)
(***************************************************************************)
C12_DistanceInRange ==
    (WellFormed(hashA) /\ WellFormed(hashB)) =>
        /\ validated # Pending =>
              (validated.kind = "return" /\ validated.value \in 0..64)
        /\ fast # Pending =>
              (fast.kind = "return" /\ fast.value \in 0..64)

\* the upper end of the range: all zeros against all ones
C12_Witness ==
    /\ hashA = Zeros /\ hashB = Ones
    /\ validated.kind = "return" /\ fast.kind = "return"
    /\ validated.value = 64 /\ fast.value = 64

(***************************************************************************)
(* C13: the two paths agree.  For every pair of well-formed fingerprints   *)
(* the fast path (one 64-bit BigInt) and the validated path (four 16-bit   *)
(* chunks) return the same value.                                          *)
(***************************************************************************)
C13_PathsAgree ==
    (/\ WellFormed(hashA) /\ WellFormed(hashB)
     /\ validated # Pending /\ fast # Pending) =>
        /\ validated.kind = "return"
        /\ fast.kind = "return"
        /\ validated.value = fast.value

\* upper-case against lower-case digits, one bit apart, on both paths
C13_Witness ==
    /\ hashA = Rep("F", 16) /\ hashB = <<"e">> \o Rep("f", 15)
    /\ validated.kind = "return" /\ fast.kind = "return"
    /\ validated.value = 1 /\ fast.value = 1

(***************************************************************************)
(* C14: match classes.  getMatchType gives 'exact' for distance 0, 'near'  *)
(* for 1 to 3, 'similar' for 4 to 10 and 'different' for 11 to 64; every   *)
(* distance of 0..64 falls in exactly one of the four ranges.              *)
(***************************************************************************)
MatchClasses ==
    <<[name |-> "exact", lo |-> 0, hi |-> 0],
      [name |-> "near", lo |-> 1, hi |-> 3],
      [name |-> "similar", lo |-> 4, hi |-> 10],
      [name |-> "different", lo |-> 11, hi |-> 64]>>

ClassesOf(d) == {k \in 1..Len(MatchClasses) : MatchClasses[k].lo <= d /\ d <= MatchClasses[k].hi}

C14_MatchClasses ==
    (distanceArg \in 0..64) =>
        /\ Cardinality(ClassesOf(distanceArg)) = 1
        /\ matchType.kind = "return" =>
              \A k \in ClassesOf(distanceArg) : matchType.value = MatchClasses[k].name

\* the last distance of 'near' has been classified
C14_Witness ==
    distanceArg = 3 /\ matchType.kind = "return" /\ matchType.value = "near"

(***************************************************************************)
(* C15: similarity.  For a distance d of 0..64 distanceToSimilarity gives  *)
(* 1 - d/64: 1 at 0, 0 at 64, never outside [0, 1], and more than what it  *)
(* gives for d + 1.                                                        *)
(***************************************************************************)
LessThan(p, q) == p.num * q.den < q.num * p.den

C15_Similarity ==
    (distanceArg \in 0..64 /\ similarity.kind = "return") =>
        LET sim == similarity.value
        IN  /\ sim.den > 0
            /\ sim.num * 64 = (64 - distanceArg) * sim.den
            /\ distanceArg = 0 => sim.num = sim.den
            /\ distanceArg = 64 => sim.num = 0
            /\ 0 <= sim.num /\ sim.num <= sim.den
            /\ distanceArg < 64 =>
                  LessThan(distanceToSimilarity(distanceArg + 1), sim)

\* 48 of the 64 bits differ: similarity 1/4
C15_Witness ==
    /\ distanceArg = 48 /\ similarity.kind = "return"
    /\ similarity.value.num * 4 = similarity.value.den

(***************************************************************************)
(* C19: FNV-1a 64.  fnv1a64 starts from the offset basis                   *)
(* 14695981039346656037 and, for each character in order, XORs the         *)
(* character code into the hash and then multiplies by 1099511628211       *)
(* modulo 2^64; the result is in [0, 2^64), and the empty string hashes to *)
(* the offset basis.  The reference computes the same in bytes, least      *)
(* significant first, with 1099511628211 = 2^40 + 435.                     *)
(***************************************************************************)
Bytes(x) == [k \in 1..8 |-> BigDigit(x, 2 * k - 1) + 16 * BigDigit(x, 2 * k)]

\* 0xcbf29ce484222325
OffsetBasisBytes == <<37, 35, 34, 132, 228, 156, 242, 203>>

XorCode(b, code) ==
    [k \in 1..8 |-> IF k = 1 THEN XorNat(b[1], code % 256)
                    ELSE IF k = 2 THEN XorNat(b[2], code \div 256)
                    ELSE b[k]]

RECURSIVE TimesPrimeFrom(_, _, _)
TimesPrimeFrom(b, k, carry) ==
    IF k > 8 THEN <<>>
    ELSE LET v == b[k] * 435 + (IF k > 5 THEN b[k - 5] ELSE 0) + carry
         IN  <<v % 256>> \o TimesPrimeFrom(b, k + 1, v \div 256)

RECURSIVE FnvBytes(_, _)
FnvBytes(b, s) ==
    IF s = <<>> THEN b
    ELSE FnvBytes(TimesPrimeFrom(XorCode(b, CharCodes[Head(s)]), 1, 0), Tail(s))

\* the decimal digits of the number whose base-16 digits, most significant
\* first, are x
RECURSIVE QuotientBy10(_, _)
QuotientBy10(x, r) ==
    IF x = <<>> THEN <<>>
    ELSE <<(r * 16 + Head(x)) \div 10>> \o QuotientBy10(Tail(x), (r * 16 + Head(x)) % 10)

RECURSIVE RemainderBy10(_, _)
RemainderBy10(x, r) ==
    IF x = <<>> THEN r ELSE RemainderBy10(Tail(x), (r * 16 + Head(x)) % 10)

RECURSIVE DecimalOf(_)
DecimalOf(x) ==
    IF \A k \in 1..Len(x) : x[k] = 0 THEN <<>>
    ELSE Append(DecimalOf(QuotientBy10(x, 0)), RemainderBy10(x, 0))

C19_Fnv1a64 ==
    /\ fnvResult.kind \in {"pending", "return"}
    /\ fnvResult.kind = "return" =>
          /\ \A k \in 1..Len(fnvResult.value) : fnvResult.value[k] \in 0..15
          /\ Len(BigTrim(fnvResult.value)) <= 16
          /\ Bytes(fnvResult.value) = FnvBytes(OffsetBasisBytes, strArg)
          /\ strArg = <<>> =>
                DecimalOf(Reverse(fnvResult.value)) =
                    <<1, 4, 6, 9, 5, 9, 8, 1, 0, 3, 9, 3, 4, 6, 6, 5, 6, 0, 3, 7>>

\* the published test vector: fnv1a64('a') is 0xaf63dc4c8601ec8c
C19_Witness ==
    /\ strArg = <<"a">>
    /\ fnvResult.kind = "return"
    /\ BigToString16(fnvResult.value) =
          <<"a", "f", "6", "3", "d", "c", "4", "c", "8", "6", "0", "1", "e", "c", "8", "c">>

(***************************************************************************)
(* C16: empty input.  computeSimHash returns '0000000000000000' whenever   *)
(* the text has no token (it is empty, or holds only white space,          *)
(* punctuation and words of fewer than two characters), and it never       *)
(* raises.  A text has a token exactly when two word characters            *)
(* ([A-Za-z0-9_], told by their codes) stand next to each other.           *)
(***************************************************************************)
IsWordCode(c) ==
    \/ c \in 48..57
    \/ c \in 65..90
    \/ c = 95
    \/ c \in 97..122

HasNoWord(t) ==
    \A k \in 1..(Len(t) - 1) :
        ~(IsWordCode(CharCodes[t[k]]) /\ IsWordCode(CharCodes[t[k + 1]]))

C16_EmptyInput ==
    /\ simHashResult.kind \in {"pending", "return"}
    /\ simHashResult.kind = "return" =>
          /\ (tokenize(textArg, 2) = <<>>) = HasNoWord(textArg)
          /\ HasNoWord(textArg) => simHashResult.value = Rep("0", 16)

\* a one-letter word, white space and punctuation
C16_Witness ==
    /\ textArg = <<"x", " ", ".">>
    /\ simHashResult.kind = "return"
    /\ simHashResult.value = Rep("0", 16)

(***************************************************************************)
(* C17: majority.  When the text has tokens, bit i of the fingerprint is 1 *)
(* exactly when more of the tokens, every occurrence counted, have bit i   *)
(* of their FNV-1a hash set than have it clear; a tie gives 0.             *)
(***************************************************************************)
RECURSIVE HashesOf(_)
HashesOf(tokens) ==
    IF tokens = <<>> THEN <<>>
    ELSE <<fnv1a64(Head(tokens))>> \o HashesOf(Tail(tokens))

\* bit b (0 = least significant) of a BigInt
BigBit(x, b) == BitAt(BigDigit(x, (b \div 4) + 1), b % 4)

\* bit b of the number a string of 16 hex digits writes
StringBit(h, b) == BitAt(HexVal(h[16 - (b \div 4)]), b % 4)

C17_MajorityBits ==
    (simHashResult.kind = "return" /\ ~HasNoWord(textArg)) =>
        /\ Len(simHashResult.value) = 16
        /\ \A hashes \in {HashesOf(tokenize(textArg, 2))} :
              \A b \in 0..63 :
                 LET set == Cardinality({k \in 1..Len(hashes) : BigBit(hashes[k], b) = 1})
                     clear == Cardinality({k \in 1..Len(hashes) : BigBit(hashes[k], b) = 0})
                 IN  /\ set + clear = Len(hashes)
                     /\ (StringBit(simHashResult.value, b) = 1) = (set > clear)

\* 'ab ab Cd.': two of the three tokens are 'ab', so the fingerprint is the
\* hash of 'ab'
C17_Witness ==
    /\ textArg = <<"a", "b", " ", "a", "b", " ", "C", "d", ".">>
    /\ simHashResult.kind = "return"
    /\ simHashResult.value =
          <<"0", "8", "9", "c", "4", "4", "0", "7", "b", "5", "4", "5", "9", "8", "6", "a">>

(***************************************************************************)
(* C18: format.  computeSimHash always returns exactly 16 characters, each *)
(* a lower-case hex digit; a fingerprint that needs fewer digits is padded *)
(* with zeros on the left.                                                 *)
(***************************************************************************)
LowerHex == {HexDigits[k] : k \in 1..16}

C18_SixteenLowerHex ==
    simHashResult.kind = "return" =>
        /\ Len(simHashResult.value) = 16
        /\ \A k \in 1..Len(simHashResult.value) : simHashResult.value[k] \in LowerHex

\* a fingerprint of 15 digits, padded with one zero
C18_Witness ==
    /\ textArg = <<"a", "b", " ">>
    /\ simHashResult.kind = "return"
    /\ simHashResult.value[1] = "0"
    /\ simHashResult.value[2] = "8"
    /\ Len(simHashResult.value) = 16

(***************************************************************************)
(* C20: batches are independent.  When two calls on different batches are  *)
(* interleaved step by step in any order, each returns (or throws) exactly *)
(* what it does when it runs alone, and the ids it compares and the ids it *)
(* puts in a cluster are ids of its own batch.  What a call does alone is  *)
(* computed in one piece, loop by loop.                                    *)
(***************************************************************************)
RECURSIVE ScanAlone(_, _, _, _, _)
ScanAlone(s, t, c, k, acc) ==
    IF k > Len(s) THEN acc
    ELSE IF isSkipped(s[k], s[c], acc.assigned) THEN ScanAlone(s, t, c, k + 1, acc)
    ELSE LET distance == calculateHammingDistance(s[c].simHash, s[k].simHash)
         IN  IF distance.kind = "throw" THEN [acc EXCEPT !.thrown = distance.value]
             ELSE IF withinThreshold(distance.value, t)
             THEN ScanAlone(s, t, c, k + 1,
                            [group |-> pushMember(acc.group, s[k].id),
                             assigned |-> addAssigned(acc.assigned, s[k].id),
                             total |-> acc.total + distance.value,
                             thrown |-> ""])
             ELSE ScanAlone(s, t, c, k + 1, acc)

RECURSIVE GroupsAlone(_, _, _, _)
GroupsAlone(s, t, c, acc) ==
    IF c > Len(s) THEN acc
    ELSE IF s[c].id \in acc.assigned THEN GroupsAlone(s, t, c + 1, acc)
    ELSE LET scan == ScanAlone(s, t, c, 1,
                               [group |-> newGroup(Len(acc.groups), s[c]),
                                assigned |-> acc.assigned,
                                total |-> 0, thrown |-> ""])
         IN  IF scan.thrown # "" THEN [acc EXCEPT !.thrown = scan.thrown]
             ELSE GroupsAlone(s, t, c + 1,
                              [groups |-> Append(acc.groups,
                                                 withAverage(scan.group, scan.total)),
                               assigned |-> addAssigned(scan.assigned, s[c].id),
                               thrown |-> ""])

RunAlone(batch, t) ==
    IF Len(batch) = 0 THEN [groups |-> <<>>, assigned |-> {}, thrown |-> ""]
    ELSE GroupsAlone(sortNewestFirst(batch), t, 1,
                     [groups |-> <<>>, assigned |-> {}, thrown |-> ""])

IdsOf(batch) == {batch[k].id : k \in 1..Len(batch)}

GroupsOf(f) == IF f.group # NoGroup THEN Append(f.groups, f.group) ELSE f.groups

AsAlone(f) ==
    /\ f.pc = "done" =>
          \A alone \in {RunAlone(f.articles, f.threshold)} :
             alone.thrown = "" /\ f.groups = alone.groups
    /\ f.pc = "threw" =>
          \A alone \in {RunAlone(f.articles, f.threshold)} :
             alone.thrown # "" /\ f.thrown = alone.thrown
    /\ \A k \in 1..Len(f.comparisons) :
          f.comparisons[k][1] \in IdsOf(f.articles)
          /\ f.comparisons[k][2] \in IdsOf(f.articles)
    /\ \A k \in 1..Len(GroupsOf(f)) :
          \A m \in 1..Len(GroupsOf(f)[k].memberIds) :
             GroupsOf(f)[k].memberIds[m] \in IdsOf(f.articles)

C20_BatchesIndependent ==
    running \in {1, 2} => AsAlone(RunningFrame) /\ AsAlone(parked)

\* the first call has returned one cluster of its two articles while the
\* second call, which shares an id with it, is suspended in the middle of
\* its scan
C20_Witness ==
    /\ running = 1
    /\ pc = "done"
    /\ Len(articles) = 2
    /\ Len(groups) = 1
    /\ parked.pc = "inner"
    /\ Len(parked.articles) = 2
    /\ Len(parked.comparisons) >= 1

\* a single call returns what the one-piece computation gives
AloneMatchesCall ==
    /\ pc = "done" =>
          RunAlone(articles, threshold).thrown = ""
          /\ groups = RunAlone(articles, threshold).groups
    /\ pc = "threw" => thrown = RunAlone(articles, threshold).thrown

(***************************************************************************)
(* C21: equal timestamps.  The most-recent-first sort is stable: right     *)
(* after it, articles with the same time value are in input order in the   *)
(* sorted copy.  So when the call returns for a batch with distinct ids,   *)
(* of two well-formed articles with the same time value that are within    *)
(* the threshold of each other, the one that comes first in the input, if  *)
(* it is a center, has the other as its member unless a center visited     *)
(* before it had claimed the other; and the later one is never the center  *)
(* of the earlier one.                                                     *)
(***************************************************************************)
IsCenter(id) == \E g \in 1..Len(groups) : groups[g].centerArticleId = id

ClaimedBefore(m, c) ==
    \E g \in 1..Len(groups) :
        /\ ScannedBefore(groups[g].centerArticleId, c)
        /\ m \in MemberSet(groups[g])

C21_TiesKeepInputOrder ==
    DistinctIds =>
        /\ (pc = "outer" /\ i = 1) =>
              \A k, l \in 1..Len(sorted) :
                 (/\ k < l
                  /\ getTime(sorted[k].publishedAt) = getTime(sorted[l].publishedAt))
                 => IndexOf(sorted[k].id) < IndexOf(sorted[l].id)
        /\ Returned =>
              \A a, b \in 1..Len(articles) :
                 (/\ a < b
                  /\ getTime(articles[a].publishedAt) = getTime(articles[b].publishedAt)
                  /\ WellFormed(articles[a].simHash)
                  /\ WellFormed(articles[b].simHash)
                  /\ BitDifference(articles[a].simHash, articles[b].simHash) <= threshold)
                 => /\ ~InGroupOf(articles[b].id, articles[a].id)
                    /\ (IsCenter(articles[a].id)
                        /\ ~ClaimedBefore(articles[b].id, articles[a].id))
                          => InGroupOf(articles[a].id, articles[b].id)

\* the last two of three articles have the same time value, older than the
\* first, and are one bit apart: the second is the center of the third
C21_Witness ==
    /\ Returned
    /\ Len(articles) = 3
    /\ threshold = 1
    /\ getTime(articles[1].publishedAt) > getTime(articles[2].publishedAt)
    /\ getTime(articles[2].publishedAt) = getTime(articles[3].publishedAt)
    /\ Len(groups) = 2
    /\ groups[2].centerArticleId = articles[2].id
    /\ groups[2].memberIds = <<articles[2].id, articles[3].id>>

(***************************************************************************)
(* C22: greedy first-compatible assignment.  When the call returns for a   *)
(* batch with distinct ids, the clusters are in scan order of their        *)
(* centers, and each non-center member of a cluster is farther than the    *)
(* threshold from the center of every cluster created before it            *)
(* (fingerprints well-formed): a document joins the first center, most     *)
(* recent first, that is within the threshold of it.                       *)
(***************************************************************************)
C22_FirstCompatibleCenter ==
    (Returned /\ DistinctIds) =>
        \A k \in 1..Len(groups) : \A h \in 1..(k - 1) :
            LET earlier == groups[h].centerArticleId
            IN  /\ ScannedBefore(earlier, groups[k].centerArticleId)
                /\ \A n \in 2..Len(groups[k].memberIds) :
                      LET m == groups[k].memberIds[n]
                      IN  BothWellFormed(earlier, m)
                             => CenterDistance(earlier, m) > threshold

\* the second returned cluster has a member that the first center, one bit
\* beyond the threshold from it, has left alone
C22_Witness ==
    /\ Returned
    /\ threshold = 1
    /\ Len(groups) = 2
    /\ Len(groups[2].memberIds) = 2
    /\ BothWellFormed(groups[1].centerArticleId, groups[2].memberIds[2])
    /\ CenterDistance(groups[1].centerArticleId, groups[2].memberIds[2]) = 2
    /\ ScannedBefore(groups[2].memberIds[2], groups[1].centerArticleId) = FALSE

(***************************************************************************)
(* C24: only the center is compared.  Every comparison of a run is between *)
(* the center of a cluster, finished or being built, and a candidate; and  *)
(* when the call returns, each candidate that was compared is in the       *)
(* cluster of that center exactly when its distance to the center is at    *)
(* most the threshold, whatever its distance to the other members: so a    *)
(* returned cluster can hold two non-center members that are farther than  *)
(* the threshold from each other (the witness).                            *)
(***************************************************************************)
C24_CenterDecidesAlone ==
    DistinctIds =>
        \A n \in 1..Len(comparisons) :
            LET c == comparisons[n][1]
                m == comparisons[n][2]
            IN  /\ \E g \in 1..Len(GroupsSoFar) : IsGroupOfCenter(GroupsSoFar[g], c)
                /\ (Returned /\ BothWellFormed(c, m)) =>
                      (InGroupOf(c, m) <=> CenterDistance(c, m) <= threshold)

\* a returned cluster with two non-center members whose mutual distance is
\* greater than the threshold
C24_Witness ==
    /\ Returned
    /\ threshold >= 0
    /\ \E g \in 1..Len(groups) : \E k, l \in 2..Len(groups[g].memberIds) :
          /\ BothWellFormed(groups[g].memberIds[k], groups[g].memberIds[l])
          /\ CenterDistance(groups[g].memberIds[k], groups[g].memberIds[l]) > threshold

(***************************************************************************)
(* C27: centers are far apart.  When the call returns for a batch with     *)
(* distinct ids, the centers of two different clusters, when both have     *)
(* well-formed fingerprints, are at Hamming distance strictly greater than *)
(* the threshold.                                                          *)
(***************************************************************************)
C27_CentersApart ==
    (Returned /\ DistinctIds) =>
        \A g, h \in 1..Len(groups) :
            (g # h /\ BothWellFormed(groups[g].centerArticleId, groups[h].centerArticleId))
               => CenterDistance(groups[g].centerArticleId, groups[h].centerArticleId)
                     > threshold

\* three returned clusters at threshold 0, two of whose centers are one bit
\* apart
C27_Witness ==
    /\ Returned
    /\ threshold = 0
    /\ Len(groups) = 3
    /\ \E g, h \in 1..3 :
          CenterDistance(groups[g].centerArticleId, groups[h].centerArticleId) = 1

(***************************************************************************)
(* C28: diameter.  When the call returns with a threshold >= 0, any two    *)
(* members of one cluster with well-formed fingerprints are at Hamming     *)
(* distance at most twice the threshold.                                   *)
(***************************************************************************)
C28_DiameterTwiceThreshold ==
    (Returned /\ threshold >= 0) =>
        \A g \in 1..Len(groups) : \A k, l \in 1..Len(groups[g].memberIds) :
            (k < l /\ BothWellFormed(groups[g].memberIds[k], groups[g].memberIds[l]))
               => CenterDistance(groups[g].memberIds[k], groups[g].memberIds[l])
                     <= 2 * threshold

\* a returned cluster of three at threshold 1 whose two other members are
\* each one bit from the center and two bits from each other
C28_Witness ==
    /\ Returned
    /\ threshold = 1
    /\ \E g \in 1..Len(groups) :
          /\ Len(groups[g].memberIds) = 3
          /\ CenterDistance(groups[g].memberIds[1], groups[g].memberIds[2]) = 1
          /\ CenterDistance(groups[g].memberIds[1], groups[g].memberIds[3]) = 1
          /\ CenterDistance(groups[g].memberIds[2], groups[g].memberIds[3]) = 2

(***************************************************************************)
(* C30: number of comparisons.  The trace of the comparisons of a run on n *)
(* documents with distinct ids holds at most n(n-1)/2 of them at any time, *)
(* and when the run has ended, by a return or a throw, no document was     *)
(* compared with itself and no unordered pair of documents was compared    *)
(* twice; when the call returns and no two documents are within the        *)
(* threshold of each other, exactly n(n-1)/2 comparisons were made.        *)
(***************************************************************************)
PairOf(comparison) == {comparison[1], comparison[2]}

NoTwoWithinThreshold ==
    \A a, b \in 1..Len(articles) :
        a # b =>
           /\ WellFormed(articles[a].simHash)
           /\ WellFormed(articles[b].simHash)
           /\ BitDifference(articles[a].simHash, articles[b].simHash) > threshold

C30_EachPairAtMostOnce ==
    DistinctIds =>
        LET n == Len(articles)
        IN  /\ pc \in {"done", "threw"} =>
               \A a \in 1..Len(comparisons) :
                  /\ comparisons[a][1] # comparisons[a][2]
                  /\ PairOf(comparisons[a]) \subseteq InputIds
                  /\ \A b \in 1..Len(comparisons) :
                        a # b => PairOf(comparisons[a]) # PairOf(comparisons[b])
            /\ 2 * Len(comparisons) <= n * (n - 1)
            /\ (Returned /\ NoTwoWithinThreshold)
                  => 2 * Len(comparisons) = n * (n - 1)

\* a returned run on three documents, pairwise beyond the threshold, after
\* three comparisons
C30_Witness ==
    /\ Returned
    /\ Len(articles) = 3
    /\ threshold = 0
    /\ NoTwoWithinThreshold
    /\ Len(comparisons) = 3

(***************************************************************************)
(* groupArticlesBySimilarity on batches in which an id may occur more than *)
(* once.  ArticleInput.id is a string the caller chooses and nothing in    *)
(* the function requires the ids of a batch to differ.  The k-th article   *)
(* has the id of an earlier article or ArticleIds[k], the time value k,    *)
(* and a fingerprint out of three at mutual distances 1, 2 and 3.          *)
(***************************************************************************)
MaxRepeatedDocs == 3

RepeatedPool == {Zeros, LowBits("3"), LowBits("7")}

RepeatedThresholds == {0, 2}

IdChoices(n) == {c \in [1..n -> 1..n] : \A k \in 1..n : c[k] <= k}

BatchWithIds(n, c, f) ==
    [k \in 1..n |->
        [id |-> ArticleIds[c[k]], simHash |-> f[k], publishedAt |-> k]]

InitRepeatedIds ==
    /\ \E n \in 0..MaxRepeatedDocs :
          \E c \in IdChoices(n), f \in [1..n -> RepeatedPool] :
             articles = BatchWithIds(n, c, f)
    /\ threshold \in RepeatedThresholds
    /\ pc = "start"
    /\ sorted = <<>> /\ assigned = {} /\ groups = <<>> /\ i = 0 /\ j = 0
    /\ group = NoGroup /\ totalDistance = 0 /\ comparisons = <<>>
    /\ thrown = ""
    /\ ComparatorIdle
    /\ ScoresIdle
    /\ FnvIdle
    /\ SimHashIdle
    /\ CallsIdle
    /\ TokenizersIdle

SpecRepeatedIds == InitRepeatedIds /\ [][Next]_vars

(***************************************************************************)
(* C23: assignments are never re-evaluated.  In every step of a run the    *)
(* assigned set only grows; the clusters created so far keep their center  *)
(* and their members, in place; an id that a step puts in a member list    *)
(* was neither assigned nor in any member list before; and a document      *)
(* whose id is already assigned starts no cluster when the outer loop      *)
(* reaches it and is not compared when a scan reaches it, even when the    *)
(* center scanning is closer to it than its own.                           *)
(***************************************************************************)
IsPrefix(s, t) == Len(s) <= Len(t) /\ SubSeq(t, 1, Len(s)) = s

AssignmentsKept ==
    /\ assigned \subseteq assigned'
    /\ Len(GroupsSoFar) <= Len(GroupsSoFar')
    /\ \A g \in 1..Len(GroupsSoFar) :
          /\ GroupsSoFar'[g].centerArticleId = GroupsSoFar[g].centerArticleId
          /\ IsPrefix(GroupsSoFar[g].memberIds, GroupsSoFar'[g].memberIds)
    /\ IsPrefix(Flatten(GroupsSoFar), Flatten(GroupsSoFar'))
    /\ \A k \in (Len(Flatten(GroupsSoFar)) + 1)..Len(Flatten(GroupsSoFar')) :
          LET id == Flatten(GroupsSoFar')[k]
          IN  /\ id \notin assigned
              /\ Occurrences(Flatten(GroupsSoFar), id) = 0
    /\ (pc = "outer" /\ i <= Len(sorted) /\ sorted[i].id \in assigned)
          => /\ group' = NoGroup
             /\ groups' = groups
             /\ comparisons' = comparisons
    /\ (pc = "inner" /\ j <= Len(sorted) /\ sorted[j].id \in assigned)
          => /\ group' = group
             /\ comparisons' = comparisons

C23_AssignmentsNeverRevisited == [][AssignmentsKept]_vars

\* at return, a member of the first cluster is two bits from its center and
\* one bit from the center of the second cluster, created later
C23_Witness ==
    /\ Returned
    /\ DistinctIds
    /\ threshold = 2
    /\ Len(groups) = 2
    /\ Len(groups[1].memberIds) = 2
    /\ CenterDistance(groups[1].centerArticleId, groups[1].memberIds[2]) = 2
    /\ CenterDistance(groups[2].centerArticleId, groups[1].memberIds[2]) = 1

(***************************************************************************)
(* C29: repeated ids.  Whether or not the ids of the batch differ, no      *)
(* comparison of a run is between two documents with the same id, and when *)
(* the call returns every id of the batch occurs exactly once across the   *)
(* member lists, whose total length is the number of distinct ids.         *)
(***************************************************************************)
C29_RepeatedIdListedOnce ==
    /\ \A n \in 1..Len(comparisons) : comparisons[n][1] # comparisons[n][2]
    /\ Returned =>
          /\ \A id \in InputIds : Occurrences(Flatten(groups), id) = 1
          /\ Len(Flatten(groups)) = Cardinality(InputIds)
          /\ \A g \in 1..Len(groups) : MemberSet(groups[g]) \subseteq InputIds

\* a returned run on three documents, two of which share an id and have
\* fingerprints within the threshold of each other: two member entries
C29_Witness ==
    /\ Returned
    /\ Len(articles) = 3
    /\ Cardinality(InputIds) = 2
    /\ threshold = 2
    /\ \E a, b \in 1..3 :
          /\ a # b
          /\ articles[a].id = articles[b].id
          /\ BitDifference(articles[a].simHash, articles[b].simHash) = 1
    /\ Len(Flatten(groups)) = 2
    /\ Len(comparisons) >= 1

(***************************************************************************)
(* groupArticlesBySimilarity is a synchronous function: once called it     *)
(* runs until it returns or throws, so a step that is enabled is taken.    *)
(***************************************************************************)
\* where the call is: every step moves it
position == <<pc, i, j>>

\* the steps other than a comparison
StepBesideComparison ==
    \/ ReturnEmpty
    \/ SortArticles
    \/ SkipAssigned
    \/ StartGroup
    \/ SkipCandidate
    \/ FinishGroup
    \/ ReturnGroups

\* calculateHammingDistance(article.simHash, candidate.simHash) returns, and
\* the scan moves to the next candidate, or throws
ComparisonCompletes ==
    /\ pc = "inner"
    /\ j <= Len(sorted)
    /\ ~isSkipped(sorted[j], sorted[i], assigned)
    /\ i' = i
    /\ \/ j' = j + 1 /\ pc' = pc
       \/ j' = j /\ pc' = "threw"

\* the calls followed to their end: the batches of Init whose k-th article
\* has the time value 1 + (k - 1) mod MaxTs
InitRunToCompletion ==
    /\ \E n \in 0..MaxDocs :
          \E f \in [1..n -> FingerprintPool] :
             articles = Batch(n, f, [k \in 1..n |-> 1 + ((k - 1) % MaxTs)])
    /\ threshold \in Thresholds
    /\ pc = "start"
    /\ sorted = <<>> /\ assigned = {} /\ groups = <<>> /\ i = 0 /\ j = 0
    /\ group = NoGroup /\ totalDistance = 0 /\ comparisons = <<>>
    /\ thrown = ""
    /\ ComparatorIdle
    /\ ScoresIdle
    /\ FnvIdle
    /\ SimHashIdle
    /\ CallsIdle
    /\ TokenizersIdle

SpecRunToCompletion ==
    /\ InitRunToCompletion
    /\ [][Next]_vars
    /\ WF_position(StepBesideComparison)
    /\ WF_position(ComparisonCompletes)

(***************************************************************************)
(* C25: termination.  A call on a batch whose fingerprints are all         *)
(* well-formed eventually returns, with the id of every document of the    *)
(* batch in assigned; and whenever the outer loop moves on from a          *)
(* document, by one position, that document's id is in assigned.           *)
(***************************************************************************)
AllWellFormed == \A k \in 1..Len(articles) : WellFormed(articles[k].simHash)

OuterStepAssigns ==
    i' # i =>
       /\ i' = i + 1
       /\ i >= 1 => sorted[i].id \in assigned'

C25_ReturnsWithAllAssigned ==
    /\ (pc = "start" /\ AllWellFormed) ~> (Returned /\ InputIds \subseteq assigned)
    /\ [][OuterStepAssigns]_vars

\* a call on three well-formed documents has returned two clusters, one of
\* them with a member that the outer loop then skipped; all ids are assigned
C25_Witness ==
    /\ Returned
    /\ Len(articles) = 3
    /\ AllWellFormed
    /\ Len(groups) = 2
    /\ assigned = InputIds
    /\ Cardinality(assigned) = 3

(***************************************************************************)
(* The two tokenizers on one text: the tokenize of simhash.ts as           *)
(* computeSimHash calls it (line 47, minLength left to its default), and   *)
(* the tokenize of src/text/tokenizer.ts with some options.  The text is   *)
(* made of at most MaxTokenizerPieces pieces: words in either case, an     *)
(* apostrophe, a hyphen, a space and a full stop.                          *)
(***************************************************************************)
MaxTokenizerPieces == 3

TokenizerPieces ==
    {<<"D", "o", "n">>, <<"'">>, <<"t">>, <<"-">>, <<" ">>, <<"T", "h", "e">>, <<".">>}

RECURSIVE TokenizerTexts(_)
TokenizerTexts(n) ==
    IF n = 0 THEN {<<>>}
    ELSE TokenizerTexts(n - 1)
         \cup {t \o p : t \in TokenizerTexts(n - 1), p \in TokenizerPieces}

TokenizerOptionSets ==
    [minLength : {<<>>, <<1>>, <<2>>},
     removeStopwords : {<<>>, <<FALSE>>, <<TRUE>>},
     lowercase : {<<>>, <<FALSE>>, <<TRUE>>}]

InitTokenizers ==
    /\ tokenizerText \in TokenizerTexts(MaxTokenizerPieces)
    /\ tokenizerOptions \in TokenizerOptionSets
    /\ simHashTokens = Pending
    /\ tokenizerTokens = Pending
    /\ GrouperIdle
    /\ ComparatorIdle
    /\ ScoresIdle
    /\ FnvIdle
    /\ SimHashIdle
    /\ CallsIdle

\* const tokens = tokenize(text): the tokens computeSimHash fingerprints
CallSimHashTokenize ==
    /\ simHashTokens.kind = "pending"
    /\ simHashTokens' = Return(tokenize(tokenizerText, 2))
    /\ UNCHANGED <<tokenizerText, tokenizerOptions, tokenizerTokens>>
    /\ UNCHANGED outsideTokenizers

\* tokenize(text, options) of the shared tokenizer
CallTokenizer ==
    /\ tokenizerTokens.kind = "pending"
    /\ tokenizerTokens' = Return(Tokenizer_tokenize(tokenizerText, tokenizerOptions))
    /\ UNCHANGED <<tokenizerText, tokenizerOptions, simHashTokens>>
    /\ UNCHANGED outsideTokenizers

NextTokenizers == CallSimHashTokenize \/ CallTokenizer

SpecTokenizers == InitTokenizers /\ [][NextTokenizers]_vars

(***************************************************************************)
(* C26: the tokens computeSimHash fingerprints are, for every text, those  *)
(* the shared tokenizer returns when called with minLength 2, lowercase on *)
(* and stopword removal off, given or left to their defaults.              *)
(***************************************************************************)
AsSimHashCallsIt ==
    /\ WithDefault(tokenizerOptions.minLength, 2) = 2
    /\ WithDefault(tokenizerOptions.lowercase, TRUE)
    /\ ~WithDefault(tokenizerOptions.removeStopwords, FALSE)

C26_SameTokensAsTokenizer ==
    (/\ simHashTokens.kind = "return"
     /\ tokenizerTokens.kind = "return"
     /\ AsSimHashCallsIt)
        => simHashTokens.value = tokenizerTokens.value

====
